---- MODULE Spec2Model ----
(***************************************************************************)
(* squaredown: connectors that pull Square objects (orders, catalog       *)
(* objects, locations, payouts) into MongoDB collections and keep a       *)
(* watermark (last_id / last_updated) in a configuration collection.      *)
(*                                                                         *)
(* Times are instants (integers).  A timestamp string is a record         *)
(* [wall, off]: the wall-clock digits and the UTC offset written after    *)
(* them ("Z" is offset 0).  A document is a record that carries its _id.  *)
(* A collection is a set of documents.                                    *)
(***************************************************************************)
EXTENDS Integers, Sequences, FiniteSets, TLC

\* ---------------------------------------------------------------- bounds
MaxTime == 3
MaxErrors == 1
MaxReads == 3

\* ------------------------------------------------------------- constants
\* datetime_utils.START_MIN (2000-01-01) and the SQUAREDOWN_START_STR time
START_MIN == 1
SQUAREDOWN_START == 2
\* number of objects the Square API puts in one page of a search response
PageSize == 1

\* Ids are tuples of strings, so that an id built from two ids is a tuple
\* too.  None is the empty tuple: no id, or no value; Some(x) is a value.
None == <<>>
Some(x) == <<x>>
\* a key a dict does not have
Absent == "Absent"
OrderIds == {<<"o1">>, <<"o2">>}
Times == START_MIN..MaxTime
\* the instants at which the Square account changes
ApiTimes == SQUAREDOWN_START..MaxTime
\* UTC offsets of the local timezone of the machine
TzOffsets == {0, 0 - 1}

\* ---------------------------------------------------------------- strings
\* the RFC 3339 string Square writes for instant t ("...Z")
rfc3339(t) == [wall |-> t, off |-> 0]

\* datetime.isoformat() of instant t in the local timezone
isoformat(t, tz) == [wall |-> t + tz, off |-> tz]

\* i_square.decode_datetime: the instant a timestamp string denotes
decode_datetime(s) == s.wall - s.off

\* comparison of two timestamp strings character by character: the wall
\* digits decide; on equal digits "...Z" sorts after "...+hh:mm"
StrLt(a, b) == a.wall < b.wall
StrGte(a, b) == ~StrLt(a, b)

\* -------------------------------------------------------------- sequences
RECURSIVE SeqToSet(_)
SeqToSet(s) == IF s = <<>> THEN {} ELSE {Head(s)} \cup SeqToSet(Tail(s))

\* all orderings of a finite set as sequences without repetition
RECURSIVE Perms(_)
Perms(S) ==
    IF S = {} THEN {<<>>}
    ELSE UNION {{<<x>> \o p : p \in Perms(S \ {x})} : x \in S}

IsSortedBy(s, key(_)) ==
    \A i \in 1..Len(s) : \A j \in 1..Len(s) : i < j => key(s[i]) <= key(s[j])

\* ---------------------------------------------------------------- MongoDB
Collections ==
    {"square_orders", "raw_square_orders", "square_order_tenders",
     "square_payments", "square_order_fulfillments",
     "square_order_itemizations", "raw_square_order_itemizations",
     "square_refunds", "square_catalog_items", "square_locations",
     "square_payouts", "square_payout_entries", "config"}

\* whether document d satisfies a filter on _id = fid; the filter kind
\* "not_fixed" adds $or: [{_fixed: {$exists: 0}}, {_fixed: False}]
Matches(d, flt, fid) ==
    /\ d._id = fid
    /\ (flt = "not_fixed") => (d._fixed = Absent \/ d._fixed = "false")

\* pymongo find_one_and_replace(filter, replacement, upsert=True): replace
\* the document the filter selects; when it selects none, insert the
\* replacement under its own _id, or under the _id of the filter when it has
\* none; the unique index on _id rejects a second document with that _id
find_one_and_replace(coll, flt, fid, repl) ==
    LET hit == {d \in coll : Matches(d, flt, fid)}
        newid == IF repl._id = None THEN fid ELSE repl._id
    IN  IF hit # {}
        THEN LET old == CHOOSE d \in hit : TRUE
             IN  [coll |-> (coll \ {old}) \cup {[repl EXCEPT !._id = old._id]},
                  err |-> "none"]
        ELSE IF \E d \in coll : d._id = newid
        THEN [coll |-> coll, err |-> "DuplicateKeyError"]
        ELSE [coll |-> coll \cup {[repl EXCEPT !._id = newid]}, err |-> "none"]

\* pymongo delete_one({'_id': fid})
delete_one(coll, fid) ==
    IF \E d \in coll : d._id = fid
    THEN coll \ {CHOOSE d \in coll : d._id = fid}
    ELSE coll

\* A context is what a handler works on: the database, the ids written to
\* each collection so far, the log lines of this call and the exception
\* that ended it ("none" while it runs).
NoLog == {}

\* one upsert of a handler into collection c; a DuplicateKeyError propagates
\* unless the handler catches it
Upsert(ctx, c, flt, fid, repl) ==
    LET r == find_one_and_replace(ctx.db[c], flt, fid, repl)
    IN  IF r.err = "none"
        THEN [ctx EXCEPT !.db[c] = r.coll,
                         !.written[c] = @ \cup {IF repl._id = None THEN fid ELSE repl._id}]
        ELSE [ctx EXCEPT !.exc = r.err]

Log(ctx, level, what) == [ctx EXCEPT !.log = @ \cup {<<level, what>>}]

\* ------------------------------------------------------- Square order data
\* The shapes of order the Square account holds.  An order of the API is
\* [id, updated_at, body]; body names its content.
Bodies == {"sale", "open", "refund", "bad", "open_paid", "open_none"}

BodyState(body) ==
    IF body \in {"open", "bad", "open_paid", "open_none"}
    THEN <<"OPEN">> ELSE <<"COMPLETED">>

\* tenders: card is the card_details status, Absent for a tender without
\* card_details; paid tells whether the Payments API holds a payment for it
BodyTenders(body, oid) ==
    CASE body \in {"sale", "open_paid"} ->
           <<[id |-> oid \o <<"t1">>, type |-> "CARD", amount |-> 5,
              card |-> "CAPTURED", paid |-> TRUE]>>
      [] body = "open" ->
           <<[id |-> oid \o <<"t1">>, type |-> "CARD", amount |-> 5,
              card |-> "CAPTURED", paid |-> TRUE],
             [id |-> oid \o <<"t2">>, type |-> "CARD", amount |-> 2,
              card |-> "AUTHORIZED", paid |-> FALSE]>>
      [] body \in {"refund", "bad"} ->
           <<[id |-> oid \o <<"t1">>, type |-> "CASH", amount |-> 5,
              card |-> Absent, paid |-> FALSE]>>
      [] body = "open_none" -> <<>>

BodyFulfillments(body) ==
    IF body \in {"sale", "open"} THEN <<[uid |-> <<"f1">>]>> ELSE <<>>

\* line items: the uid is unique within one order only
BodyLineItems(body) ==
    IF body \in {"sale", "open", "bad"}
    THEN <<[uid |-> <<"u1">>, quantity |-> [digits |-> 1]]>>
    ELSE <<>>

\* refunds: found tells whether the Refunds API holds a payment refund
BodyRefunds(body, oid) ==
    IF body = "refund"
    THEN <<[id |-> <<"r1">>, tender_id |-> oid \o <<"t1">>, found |-> FALSE],
           [id |-> <<"r2">>, tender_id |-> oid \o <<"t1">>, found |-> TRUE]>>
    ELSE <<>>

BodyReturns(body) ==
    IF body = "refund"
    THEN <<[source_order_id |-> <<"o0">>,
            return_line_items |-> <<[uid |-> <<"u1">>, quantity |-> [digits |-> 1]]>>]>>
    ELSE <<>>

\* the order object as the Orders API returns it
ApiOrder(oid, t, body) == [id |-> oid, updated_at |-> rfc3339(t), body |-> body]

\* the order as a dict in the program: the API's fields, _id when set
OrderDict(o) ==
    [_id |-> None, id |-> o.id, updated_at |-> o.updated_at, body |-> o.body,
     state |-> BodyState(o.body), source |-> Absent, _fixed |-> Absent]

\* ------------------------------------------------------------------ Orders
\* the for loop of get_order_state: the card status of the first tender that
\* is not CAPTURED, "ALL_CAPTURED" when there is none, "KeyError" when a
\* tender reached by the loop has no card_details
RECURSIVE TenderScan(_)
TenderScan(tenders) ==
    IF tenders = <<>> THEN "ALL_CAPTURED"
    ELSE LET t == Head(tenders)
         IN  IF t.card = Absent THEN "KeyError"
             ELSE IF t.card # "CAPTURED" THEN t.card
             ELSE TenderScan(Tail(tenders))

\* Orders.get_order_state: [state, exc, issue]; a state is <<"OPEN">>,
\* <<"COMPLETED">> or <<"OPEN_TENDER", status>>; issue tells whether a tender
\* issue was logged
get_order_state(order) ==
    LET tenders == BodyTenders(order.body, order.id)
    IN  IF order.state # <<"OPEN">>
        THEN [state |-> order.state, exc |-> "none", issue |-> FALSE]
        ELSE IF tenders = <<>>
        THEN [state |-> <<"OPEN_TENDER", "MISSING">>, exc |-> "none", issue |-> TRUE]
        ELSE LET r == TenderScan(tenders)
             IN  IF r = "KeyError"
                 THEN [state |-> order.state, exc |-> "KeyError", issue |-> FALSE]
                 ELSE IF r = "ALL_CAPTURED"
                 THEN [state |-> order.state, exc |-> "none", issue |-> FALSE]
                 ELSE [state |-> <<"OPEN_TENDER", r>>, exc |-> "none", issue |-> TRUE]

\* i_square.decode_order: the timestamps of the order become datetimes
decode_order(order) == [order EXCEPT !.updated_at = decode_datetime(@)]

\* Orders.apply_order_customizations: source defaults to Point of Sale
apply_order_customizations(order) ==
    [order EXCEPT !.source = IF @ = Absent THEN "Point of Sale" ELSE @]

\* make_order_properties with the bug of the state as the API gave it: the
\* derived state of update_order is not used
make_order_properties_api_state(order) ==
    [order_id |-> order.id,
     order_state |-> BodyState(order.body),
     order_updated_at |-> order.updated_at]

\* Orders.make_order_properties
make_order_properties(order) ==
    [order_id |-> order.id,
     order_state |-> get_order_state(order).state,
     order_updated_at |-> order.updated_at]

\* Orders.update_order_tender: add_order_properties, then upsert by tender id
update_order_tender(ctx, tender, order) ==
    LET props == make_order_properties(order)
    IN  Upsert(ctx, "square_order_tenders", "id", tender.id,
               [_id |-> None, id |-> tender.id, type |-> tender.type,
                amount |-> tender.amount, card |-> tender.card,
                order_id |-> props.order_id, order_state |-> props.order_state,
                order_updated_at |-> props.order_updated_at])

\* Orders.update_payment
update_payment(ctx, payment) ==
    Upsert(ctx, "square_payments", "id", payment.id, [_id |-> None, id |-> payment.id])

\* ProcessTender with the bug of a missing case: a CASH tender without
\* payment is reported like a card tender
ProcessTender_cash_reported(ctx, tender, order) ==
    LET c1 == update_order_tender(ctx, tender, order)
    IN  IF c1.exc # "none" THEN c1
        ELSE IF tender.paid THEN update_payment(c1, [id |-> tender.id])
        ELSE IF tender.amount = 0 THEN c1
        ELSE IF tender.type = "OTHER" THEN c1
        ELSE Log(c1, "error", "get_payment")

\* one round of the loop of Orders.process_tenders
ProcessTender(ctx, tender, order) ==
    LET c1 == update_order_tender(ctx, tender, order)
    IN  IF c1.exc # "none" THEN c1
        ELSE IF tender.paid THEN update_payment(c1, [id |-> tender.id])
        ELSE IF tender.amount = 0 THEN c1
        ELSE IF tender.type = "OTHER" THEN c1
        ELSE IF tender.type = "CASH" THEN c1
        ELSE Log(c1, "error", "get_payment")

RECURSIVE ForTenders(_, _, _)
ForTenders(ctx, tenders, order) ==
    IF tenders = <<>> \/ ctx.exc # "none" THEN ctx
    ELSE ForTenders(ProcessTender(ctx, Head(tenders), order), Tail(tenders), order)

\* Orders.process_tenders
process_tenders(ctx, order) ==
    ForTenders(ctx, BodyTenders(order.body, order.id), order)

\* Orders.update_fulfillment: upsert by the fulfillment's uid
update_fulfillment(ctx, obj, order) ==
    LET props == make_order_properties(order)
    IN  Upsert(ctx, "square_order_fulfillments", "id", obj.uid,
               [_id |-> None, uid |-> obj.uid,
                order_id |-> props.order_id, order_state |-> props.order_state,
                order_updated_at |-> props.order_updated_at])

RECURSIVE ForFulfillments(_, _, _)
ForFulfillments(ctx, fs, order) ==
    IF fs = <<>> \/ ctx.exc # "none" THEN ctx
    ELSE ForFulfillments(update_fulfillment(ctx, Head(fs), order), Tail(fs), order)

\* Orders.process_fulfillments
process_fulfillments(ctx, order) ==
    ForFulfillments(ctx, BodyFulfillments(order.body), order)

\* the itemization id of the versions that keyed the document by the uid
ItemizationId_uid(order_id, uid) == uid

\* the itemization id: f'{order_id}_{uid}'
ItemizationId(order_id, uid) == order_id \o uid

\* Itemizations.save_raw_itemization
save_raw_itemization(ctx, itemization, order) ==
    Upsert(ctx, "raw_square_order_itemizations", "id",
           ItemizationId(order._id, itemization.uid),
           [_id |-> None, uid |-> itemization.uid, quantity |-> itemization.quantity])

\* Itemizations.update_itemization (with apply_itemization_customizations);
\* props are the order properties, the itemization type and, for a return,
\* the source order
update_itemization(ctx, itemization, order, props) ==
    LET c1 == save_raw_itemization(ctx, itemization, order)
        itemization_id == ItemizationId(order._id, itemization.uid)
        doc == [_id |-> None, id |-> itemization_id, uid |-> itemization.uid,
                quantity |-> itemization.quantity.digits,
                order_id |-> props.order_id, order_state |-> props.order_state,
                order_updated_at |-> props.order_updated_at,
                itemization_type |-> props.itemization_type,
                source_order_id |-> props.source_order_id,
                order_source |-> order.source]
        c2 == [c1 EXCEPT !.db["square_order_itemizations"] = delete_one(@, itemization.uid)]
    IN  IF c1.exc # "none" THEN c1
        ELSE Upsert(c2, "square_order_itemizations", "id", itemization_id, doc)

RECURSIVE ForItemizations(_, _, _, _)
ForItemizations(ctx, items, order, props) ==
    IF items = <<>> \/ ctx.exc # "none" THEN ctx
    ELSE ForItemizations(update_itemization(ctx, Head(items), order, props),
                         Tail(items), order, props)

\* Orders.process_itemizations
process_itemizations(ctx, order) ==
    LET p == make_order_properties(order)
        props == [order_id |-> p.order_id, order_state |-> p.order_state,
                  order_updated_at |-> p.order_updated_at,
                  itemization_type |-> "sale", source_order_id |-> None]
    IN  ForItemizations(ctx, BodyLineItems(order.body), order, props)

\* Orders.update_refund
update_refund(ctx, refund) ==
    Upsert(ctx, "square_refunds", "id", refund.id, [_id |-> None, id |-> refund.id])

\* one round of the loop of Orders.process_refunds
ProcessRefund(ctx, refund, order) ==
    LET refund_id == refund.tender_id \o refund.id
        tender == {d \in ctx.db["square_order_tenders"] : d._id = refund.tender_id}
    IN  IF refund.found THEN update_refund(ctx, [id |-> refund_id])
        ELSE IF \E d \in tender : d.type = "CASH" THEN ctx
        ELSE IF \E d \in tender : d.type = "OTHER" THEN ctx
        ELSE Log(ctx, "error", "refund")

RECURSIVE ForRefunds(_, _, _)
ForRefunds(ctx, refunds, order) ==
    IF refunds = <<>> \/ ctx.exc # "none" THEN ctx
    ELSE ForRefunds(ProcessRefund(ctx, Head(refunds), order), Tail(refunds), order)

\* Orders.process_refunds
process_refunds(ctx, order) ==
    ForRefunds(ctx, BodyRefunds(order.body, order.id), order)

RECURSIVE ForReturns(_, _, _)
ForReturns(ctx, returns, order) ==
    IF returns = <<>> \/ ctx.exc # "none" THEN ctx
    ELSE LET p == make_order_properties(order)
             props == [order_id |-> p.order_id, order_state |-> p.order_state,
                       order_updated_at |-> p.order_updated_at,
                       itemization_type |-> "return",
                       source_order_id |-> Head(returns).source_order_id]
         IN  ForReturns(ForItemizations(ctx, Head(returns).return_line_items, order, props),
                        Tail(returns), order)

\* Orders.process_returns
process_returns(ctx, order) ==
    ForReturns(ctx, BodyReturns(order.body), order)

\* save_raw_order with the bug of a key per version: the raw document is
\* stored under the id extended by the content, not under the order id
save_raw_order_keyed_by_version(ctx, order) ==
    Upsert(ctx, "raw_square_orders", "id", order.id \o <<order.body>>,
           [order EXCEPT !._id = order.id \o <<order.body>>])

\* Orders.save_raw_order: the order, with _id set, replaces or becomes the raw
\* document of its id
save_raw_order(ctx, order) ==
    Upsert(ctx, "raw_square_orders", "id", order.id, [order EXCEPT !._id = order.id])

\* ReplaceOrder with the bug of a filter on _id alone: a fixed order is
\* replaced like any other
ReplaceOrder_unfiltered(ctx, order) ==
    LET r == find_one_and_replace(ctx.db["square_orders"], "id", order._id, order)
    IN  IF r.err = "DuplicateKeyError"
        THEN Log(ctx, "warning", "fixed_order")
        ELSE [ctx EXCEPT !.db["square_orders"] = r.coll,
                         !.written["square_orders"] = @ \cup {order._id}]

\* the last statement of Orders.update_order: replace the stored order unless
\* it is fixed; the DuplicateKeyError of the refused upsert is caught
ReplaceOrder(ctx, order) ==
    LET r == find_one_and_replace(ctx.db["square_orders"], "not_fixed", order._id, order)
    IN  IF r.err = "DuplicateKeyError"
        THEN Log(ctx, "warning", "fixed_order")
        ELSE [ctx EXCEPT !.db["square_orders"] = r.coll,
                         !.written["square_orders"] = @ \cup {order._id}]

\* update_order with the bug of a fixed order passed over whole: nothing
\* derived from the incoming order is written when the stored order is fixed
update_order_fixed_first(ctx, order_in) ==
    LET o1 == [decode_order(order_in) EXCEPT !._id = order_in.id]
        st == get_order_state(o1)
        o2 == apply_order_customizations([o1 EXCEPT !.state = st.state])
        c5 == process_returns(process_refunds(process_itemizations(
                  process_fulfillments(process_tenders(ctx, o2), o2), o2), o2), o2)
    IN  IF \E d \in ctx.db["square_orders"] : d._id = order_in.id /\ d._fixed = "true"
        THEN Log(ctx, "warning", "fixed_order")
        ELSE IF st.exc # "none" THEN [ctx EXCEPT !.exc = st.exc]
        ELSE IF c5.exc # "none" THEN c5
        ELSE ReplaceOrder(c5, o2)

\* Orders.update_order
update_order(ctx, order_in) ==
    LET o1 == [decode_order(order_in) EXCEPT !._id = order_in.id]
        st == get_order_state(o1)
        o2 == apply_order_customizations([o1 EXCEPT !.state = st.state])
        c0 == IF st.issue THEN Log(ctx, "error", "tender_issue") ELSE ctx
        c1 == process_tenders(c0, o2)
        c2 == process_fulfillments(c1, o2)
        c3 == process_itemizations(c2, o2)
        c4 == process_refunds(c3, o2)
        c5 == process_returns(c4, o2)
    IN  IF st.exc # "none" THEN [ctx EXCEPT !.exc = st.exc]
        ELSE IF c5.exc # "none" THEN c5
        ELSE ReplaceOrder(c5, o2)

\* ---------------------------------------------------------------- timespan
\* Keyword arguments are [keys, begin, begin_str, thru, thru_str]: keys is the
\* set of keywords passed; a value is None or Some(v).  A datetime string is
\* [kind |-> "dt", wall, off]; [kind |-> "empty"] is the empty string.
NoKwargs == [keys |-> {}, begin |-> None, begin_str |-> None,
             thru |-> None, thru_str |-> None]

\* kwargs.get(k)
KwGet(kwargs, k) == IF k \in kwargs.keys THEN kwargs[k] ELSE None

\* truth value of an optional string
StrTruthy(os) == os # None /\ os[1].kind # "empty"

\* dateutil parse(s).astimezone(): the instant the string denotes
ParseStr(str) == str.wall - str.off

\* timedelta(days=7), in the unit of the instants
WeekLen == 2

\* re.search(pattern_isoweek, s): a string "YYYY-Www" is
\* [kind |-> "week", week, off]; off is the UTC offset of local time on the
\* Monday of that week
IsIsoWeek(str) == str.kind = "week"

\* datetime.fromisocalendar(year_num, week_num, 1).astimezone(): the instant
\* of Monday 00:00 local time of the week
WeekMonday(str) == str.week * WeekLen - str.off

\* the conversion of begin_str
ConvertBegin(str) == IF IsIsoWeek(str) THEN WeekMonday(str) ELSE ParseStr(str)

ConvertThru_monday(str) == IF IsIsoWeek(str) THEN WeekMonday(str) ELSE ParseStr(str)

\* the conversion of thru_str
ConvertThru(str) == IF IsIsoWeek(str) THEN WeekMonday(str) + WeekLen ELSE ParseStr(str)

timespan_no_minimum(kwargs, nowt) ==
    LET begin_dt == KwGet(kwargs, "begin")
        thru_dt == KwGet(kwargs, "thru")
        begin_str == KwGet(kwargs, "begin_str")
        thru_str == KwGet(kwargs, "thru_str")
        b1 == IF begin_dt = None /\ StrTruthy(begin_str)
              THEN Some(ConvertBegin(begin_str[1])) ELSE begin_dt
        t1 == IF thru_dt = None /\ StrTruthy(thru_str)
              THEN Some(ConvertThru(thru_str[1])) ELSE thru_dt
    IN  [start |-> IF b1 = None THEN (IF t1 = None THEN nowt ELSE t1[1]) ELSE b1[1],
         end |-> IF t1 = None THEN nowt ELSE t1[1]]

\* datetime_utils.timespan
timespan(kwargs, nowt) ==
    LET begin_dt == KwGet(kwargs, "begin")
        thru_dt == KwGet(kwargs, "thru")
        begin_str == KwGet(kwargs, "begin_str")
        thru_str == KwGet(kwargs, "thru_str")
        b1 == IF begin_dt = None /\ StrTruthy(begin_str)
              THEN Some(ConvertBegin(begin_str[1])) ELSE begin_dt
        t1 == IF thru_dt = None /\ StrTruthy(thru_str)
              THEN Some(ConvertThru(thru_str[1])) ELSE thru_dt
    IN  [start |-> IF b1 = None THEN START_MIN ELSE b1[1],
         end |-> IF t1 = None THEN nowt ELSE t1[1]]

\* Connector.datetime_begin
datetime_begin(p) ==
    IF p.last_updated # None THEN p.last_updated[1] ELSE SQUAREDOWN_START

\* Connector.timespan
ConnectorTimespan(kwargs, p, nowt) ==
    IF "begin" \notin kwargs.keys /\ "begin_str" \notin kwargs.keys
    THEN timespan([kwargs EXCEPT !.keys = @ \cup {"begin"},
                                 !.begin = Some(datetime_begin(p))], nowt)
    ELSE timespan(kwargs, nowt)

\* ------------------------------------------------------------------ Config
\* the properties of a configuration set that holds none
NoProps == [last_id |-> None, last_updated |-> None]

\* Config.load_properties: the props of the stored set, or none
load_properties(config, name) ==
    IF \E d \in config : d._id = name
    THEN (CHOOSE d \in config : d._id = name).props
    ELSE NoProps

\* Config.update: the stored set is replaced by the properties in memory
ConfigUpdate(ctx, name, p) ==
    Upsert(ctx, "config", "id", name, [_id |-> name, props |-> p])

\* ------------------------------------------------------------------ search
\* what the Orders API matches to the date_time_filter of read_orders: the
\* orders updated in the window, in ascending updated_at order (orders with
\* the same updated_at in any order)
ApiMatches(orders, start_at, end_at) ==
    {o \in orders : /\ decode_datetime(start_at) <= decode_datetime(o.updated_at)
                    /\ decode_datetime(o.updated_at) <= decode_datetime(end_at)}

UpdatedAtOf(o) == decode_datetime(o.updated_at)

ApiResults(orders, start_at, end_at) ==
    {p \in Perms(ApiMatches(orders, start_at, end_at)) : IsSortedBy(p, UpdatedAtOf)}

\* one response of search_orders to a request with the given cursor (None for
\* the first request): the page after that position, and a cursor when more
\* follows; the body has no 'orders' key when the page is empty
ApiPage(result, cursor) ==
    LET from == IF cursor = None THEN 0 ELSE cursor[1]
        upto == IF from + PageSize < Len(result) THEN from + PageSize ELSE Len(result)
    IN  [orders |-> SubSeq(result, from + 1, upto),
         has_orders |-> upto > from,
         cursor |-> IF upto < Len(result) THEN Some(upto) ELSE None]

\* SquareInterface.search: the API client for the object type, None when the
\* type has none
ApiType(obj_type) == IF obj_type = "orders" THEN Some("orders") ELSE None

\* the raw orders Orders.read_orders finds with from_raw: updated_at strings
\* compared with the isoformat strings of the window, sorted by updated_at
RawMatches(raw, start, end, tzo) ==
    {d \in raw : /\ StrGte(d.updated_at, isoformat(start, tzo))
                 /\ StrLt(d.updated_at, isoformat(end, tzo))}

WallOf(d) == d.updated_at.wall

RawResults(raw, start, end, tzo) ==
    {p \in Perms(RawMatches(raw, start, end, tzo)) : IsSortedBy(p, WallOf)}

\* ----------------------------------------------------------------- Catalog
\* A catalog object of the API is [id, updated_at, has_data, name]: has_data
\* tells whether it carries the item_data block, name is a field of the block.
CatalogIds == {<<"c1">>, <<"c2">>}

CatalogObjects ==
    [id : CatalogIds, updated_at : {rfc3339(t) : t \in ApiTimes},
     has_data : BOOLEAN, name : {"ale"}]

\* decode_catalog_obj: the timestamps of the object become datetimes
decode_catalog_obj(obj) == [obj EXCEPT !.updated_at = decode_datetime(@)]

\* Catalog.update_obj with apply_object_customizations: the data block is
\* flattened into the object (KeyError when the object has none), then the
\* object replaces or becomes the document of its id
update_obj(ctx, obj) ==
    LET o1 == decode_catalog_obj(obj)
        doc == [_id |-> o1.id, id |-> o1.id, updated_at |-> o1.updated_at,
                name |-> o1.name]
    IN  IF ~o1.has_data THEN [ctx EXCEPT !.exc = "KeyError"]
        ELSE Upsert(ctx, "square_catalog_items", "id", o1.id, doc)

\* sorted(objects, key=updated_at): the stable sort of a list of objects by
\* their updated_at string
RECURSIVE InsertSorted(_, _)
InsertSorted(o, s) ==
    IF s = <<>> THEN <<o>>
    ELSE IF StrLt(o.updated_at, Head(s).updated_at) THEN <<o>> \o s
    ELSE <<Head(s)>> \o InsertSorted(o, Tail(s))

RECURSIVE SortedByUpdatedAt(_)
SortedByUpdatedAt(s) ==
    IF s = <<>> THEN <<>>
    ELSE InsertSorted(s[Len(s)], SortedByUpdatedAt(SubSeq(s, 1, Len(s) - 1)))

\* The loop of Catalog.pull over the sorted objects.  st is [ctx, props,
\* update_count, trace]; each object adds the entry of what was done with it.
RECURSIVE CatalogLoop(_, _, _, _)
CatalogLoop(st, objects, name, save_last) ==
    IF objects = <<>> \/ st.ctx.exc # "none" THEN st
    ELSE LET obj == Head(objects)
             obj_id == obj.id
             updated_at == decode_datetime(obj.updated_at)
             dup == /\ st.update_count = 0
                    /\ obj_id = st.props.last_id
                    /\ Some(updated_at) = st.props.last_updated
             c1 == IF dup THEN st.ctx ELSE update_obj(st.ctx, obj)
             p1 == [last_id |-> obj_id, last_updated |-> Some(updated_at)]
             saved == ~dup /\ c1.exc = "none" /\ save_last
             c2 == IF saved THEN ConfigUpdate(c1, name, p1) ELSE c1
             entry == [id |-> obj_id, updated_at |-> updated_at,
                       count |-> st.update_count,
                       stored |-> load_properties(st.ctx.db["config"], name),
                       updated |-> ~dup, exc |-> c1.exc]
         IN  CatalogLoop([ctx |-> c2,
                          props |-> IF saved THEN p1 ELSE st.props,
                          update_count |-> IF dup \/ c1.exc # "none"
                                           THEN st.update_count
                                           ELSE st.update_count + 1,
                          trace |-> Append(st.trace, entry)],
                         Tail(objects), name, save_last)

\* --------------------------------------------------------------- Locations
\* A location of the API is [id, name].
LocationIds == {<<"l1">>, <<"l2">>}

Locations == [id : LocationIds, name : {"main", "annex"}]

\* the listings list_locations answers with: locations with different ids
LocationListings ==
    {<<>>} \cup {<<l>> : l \in Locations}
    \cup {<<l1, l2>> : l1 \in {l \in Locations : l.id = <<"l1">>},
                       l2 \in {l \in Locations : l.id = <<"l2">>}}

\* decode_location: the timestamps of the location become datetimes
decode_location(location) == location

\* update_location with the bug of an insert: the location becomes a new
\* document under a generated id whatever the collection holds
update_location_insert(ctx, location) ==
    LET l1 == decode_location(location)
        n == Cardinality(ctx.db["square_locations"])
    IN  Upsert(ctx, "square_locations", "id", l1.id \o <<"gen">> \o [i \in 1..n |-> "x"],
               [_id |-> None, id |-> l1.id, name |-> l1.name])

\* Locations.update_location
update_location(ctx, location) ==
    LET l1 == decode_location(location)
    IN  Upsert(ctx, "square_locations", "id", l1.id,
               [_id |-> None, id |-> l1.id, name |-> l1.name])

RECURSIVE ForLocations(_, _)
ForLocations(ctx, locations) ==
    IF locations = <<>> \/ ctx.exc # "none" THEN ctx
    ELSE ForLocations(update_location(ctx, Head(locations)), Tail(locations))

\* ----------------------------------------------------------------- Payouts
\* A payout of the API is [id, updated_at, status]; a payout entry is
\* [id, payout_id].
PayoutIds == {<<"p1">>, <<"p2">>}

Payouts == [id : PayoutIds, updated_at : {rfc3339(t) : t \in ApiTimes},
            status : {"SENT"}]

\* the listings list_payouts answers with: payouts with different ids
PayoutListings ==
    {<<>>} \cup {<<p>> : p \in Payouts}
    \cup {<<p1, p2>> : p1 \in {p \in Payouts : p.id = <<"p1">>},
                       p2 \in {p \in Payouts : p.id = <<"p2">>}}

\* the entries the account holds for a payout: two for p1, none for p2
ApiPayoutEntries(payout_id) ==
    IF payout_id = <<"p1">>
    THEN <<[id |-> payout_id \o <<"e1">>, payout_id |-> payout_id],
           [id |-> payout_id \o <<"e2">>, payout_id |-> payout_id]>>
    ELSE <<>>

\* one response of a list call to a request with the given cursor
ListPage(listing, cursor) ==
    LET from == IF cursor = None THEN 0 ELSE cursor[1]
        upto == IF from + PageSize < Len(listing) THEN from + PageSize ELSE Len(listing)
    IN  [items |-> SubSeq(listing, from + 1, upto),
         empty |-> upto = from,
         cursor |-> IF upto < Len(listing) THEN Some(upto) ELSE None]

\* decode_payout: the timestamps of the payout become datetimes
decode_payout(payout) == [payout EXCEPT !.updated_at = decode_datetime(@)]

\* decode_payout_entry
decode_payout_entry(payout_entry) == payout_entry

\* Payouts.update_payout
update_payout(ctx, payout) ==
    LET p1 == decode_payout(payout)
    IN  Upsert(ctx, "square_payouts", "id", p1.id,
               [_id |-> p1.id, id |-> p1.id, updated_at |-> p1.updated_at,
                status |-> p1.status])

\* PayoutEntries.update_payout_entry
update_payout_entry(ctx, payout_entry) ==
    LET e1 == decode_payout_entry(payout_entry)
    IN  Upsert(ctx, "square_payout_entries", "id", e1.id,
               [_id |-> e1.id, id |-> e1.id, payout_id |-> e1.payout_id])

\* PayoutEntries.read after a first successful response: every following
\* request carries the cursor of the response before it
RECURSIVE ReadEntries(_, _)
ReadEntries(listing, cursor) ==
    LET page == ListPage(listing, cursor)
    IN  IF page.empty THEN <<>>
        ELSE IF page.cursor = None THEN page.items
        ELSE page.items \o ReadEntries(listing, page.cursor)

RECURSIVE ForPayoutEntries(_, _)
ForPayoutEntries(ctx, entries) ==
    IF entries = <<>> \/ ctx.exc # "none" THEN ctx
    ELSE ForPayoutEntries(update_payout_entry(ctx, Head(entries)), Tail(entries))

\* PayoutEntries.pull: read the entries of the payout, save each; an error
\* response is logged and nothing is saved
PayoutEntriesPull(ctx, payout_id, ok) ==
    IF ~ok THEN Log(ctx, "error", "payout_entries")
    ELSE ForPayoutEntries(ctx, ReadEntries(ApiPayoutEntries(payout_id), None))

\* ------------------------------------------------------------------- state
VARIABLES
    connector,   \* the connector this process constructed
    tz,          \* UTC offset of the local timezone
    now,         \* the current instant
    apiOrders,   \* the orders the Square account holds
    db,          \* the MongoDB database: collection name -> documents
    written,     \* collection name -> the _ids ever written to it
    props,       \* Config._props of the connector, in memory
    pc,          \* where the running pull stands ("idle" when none runs)
    run,         \* the local variables of the running pull
    srch,        \* the local variables of SquareInterface.search
    log,         \* the warnings and errors logged by the running pull
    cfg,         \* a Config object constructed on its own
    call,        \* a call of datetime_utils.timespan: its arguments and result
    report       \* a ReportData object and the aggregation results it last read

vars == <<connector, tz, now, apiOrders, db, written, props, pc, run, srch, log,
          cfg, call, report>>

Connectors == {"orders", "catalog", "locations", "payouts"}

EmptyDb == [c \in Collections |-> {}]

\* the name of the connector's configuration set: its collection_name
ConfigName ==
    CASE connector = "orders" -> <<"square_orders">>
      [] connector = "catalog" -> <<"square_catalog_items">>
      [] connector = "locations" -> <<"square_locations">>
      [] connector = "payouts" -> <<"square_payouts">>

IdleRun ==
    [save_last |-> FALSE, from_raw |-> FALSE,
     orders |-> <<>>, i |-> 0, update_count |-> 0, trace |-> <<>>,
     props0 |-> NoProps, db0 |-> EmptyDb, exc |-> "none"]

\* no Config object constructed on its own; no call of timespan
EmptyProps == [x \in {} |-> 0]

NoConfig == [name |-> None, auto_update |-> TRUE, props |-> EmptyProps,
             op |-> <<"none">>, stored0 |-> {}, name0 |-> None, props0 |-> EmptyProps]

NoCall == [kwargs |-> NoKwargs, start |-> 0, end |-> 0, done |-> FALSE]

\* ReportData.__init__: self.data = {}; no call of get_data yet
NoReport == [data |-> <<>>, exc |-> "none", inp |-> <<>>, data0 |-> <<>>, inp0 |-> <<>>,
             calls |-> 0]

IdleSearch ==
    [result |-> <<>>, obj_list |-> <<>>, cursor |-> None, reqs |-> <<>>,
     resps |-> <<>>, errors |-> 0]

Ctx == [db |-> db, written |-> written, log |-> log, exc |-> "none"]

Init ==
    /\ connector \in Connectors
    /\ tz \in TzOffsets
    /\ now = SQUAREDOWN_START
    /\ apiOrders = {}
    /\ db = EmptyDb
    /\ written = EmptyDb
    /\ props = load_properties(db["config"], ConfigName)
    /\ pc = "idle"
    /\ run = IdleRun
    /\ srch = IdleSearch
    /\ log = NoLog
    /\ cfg = NoConfig
    /\ call = NoCall
    /\ report = NoReport

\* ------------------------------------------------------------- environment
\* the clock advances
Tick ==
    /\ pc = "idle"
    /\ now < MaxTime
    /\ now' = now + 1
    /\ UNCHANGED <<report, cfg, call, connector, tz, apiOrders, db, written, props, pc, run, srch, log>>

\* an order is created or updated in the Square account: its updated_at
\* becomes the current instant
ApiUpdate(oid, body) ==
    /\ connector = "orders"
    /\ pc = "idle"
    /\ \A o \in apiOrders : o.id = oid => decode_datetime(o.updated_at) < now
    /\ apiOrders' = {o \in apiOrders : o.id # oid} \cup {ApiOrder(oid, now, body)}
    /\ UNCHANGED <<report, cfg, call, connector, tz, now, db, written, props, pc, run, srch, log>>

\* a stored order is corrected by hand and marked fixed
FixOrder(oid) ==
    /\ connector = "orders"
    /\ pc = "idle"
    /\ \E d \in db["square_orders"] :
          /\ d._id = oid
          /\ d._fixed # "true"
          /\ db' = [db EXCEPT !["square_orders"] =
                        (@ \ {d}) \cup {[d EXCEPT !._fixed = "true"]}]
    /\ UNCHANGED <<report, cfg, call, connector, tz, now, apiOrders, written, props, pc, run, srch, log>>

\* ------------------------------------------------------------- Orders.pull
\* Orders.pull up to the first request of read_orders: the timespan, then the
\* raw orders of the window (from_raw) or the start of the search
OrdersPullBegin(save_last, from_raw, kwargs) ==
    /\ connector = "orders"
    /\ pc = "idle"
    /\ LET span == ConnectorTimespan(kwargs, props, now)
           r0 == [IdleRun EXCEPT !.save_last = save_last, !.from_raw = from_raw,
                                 !.i = 1, !.props0 = props, !.db0 = db]
       IN  IF from_raw
           THEN /\ \E res \in RawResults(db["raw_square_orders"], span.start, span.end, tz) :
                      run' = [r0 EXCEPT !.orders = res]
                /\ pc' = "loop"
                /\ srch' = srch
           ELSE /\ run' = r0
                /\ pc' = "search_first"
                /\ \E res \in ApiResults(apiOrders, isoformat(span.start, tz),
                                         isoformat(span.end, tz)) :
                      srch' = [IdleSearch EXCEPT !.result = res]
    /\ UNCHANGED <<report, cfg, call, connector, tz, now, apiOrders, db, written, props, log>>

RECURSIVE MapOrderDict(_)
MapOrderDict(s) == IF s = <<>> THEN <<>> ELSE <<OrderDict(Head(s))>> \o MapOrderDict(Tail(s))

\* SearchFirst with the bug of a missing is_success test: the body of an
\* error response is read like any other
SearchFirst_unchecked(ok) ==
    /\ pc = "search_first"
    /\ LET page == ApiPage(srch.result, None)
           s1 == [srch EXCEPT !.reqs = Append(@, None)]
       IN  IF ~ok \/ ~page.has_orders
           THEN /\ srch' = [s1 EXCEPT !.resps = Append(@, IF ok THEN "empty" ELSE "error")]
                /\ run' = [run EXCEPT !.exc = "KeyError"]
                /\ pc' = "raised"
           ELSE /\ srch' = [s1 EXCEPT !.obj_list = MapOrderDict(page.orders),
                                      !.cursor = page.cursor,
                                      !.resps = Append(@, "ok")]
                /\ IF page.cursor = None
                   THEN /\ run' = [run EXCEPT !.orders = MapOrderDict(page.orders)]
                        /\ pc' = "loop"
                   ELSE /\ run' = run
                        /\ pc' = "search_next"
    /\ UNCHANGED <<report, cfg, call, connector, tz, now, apiOrders, db, written, props, log>>

\* SquareInterface.search, the first request and what follows it at once
SearchFirst(ok) ==
    /\ pc = "search_first"
    /\ LET page == ApiPage(srch.result, None)
           s1 == [srch EXCEPT !.reqs = Append(@, None)]
       IN  IF ~ok
           THEN \* is_error: logged, the empty obj_list is returned
                /\ log' = log \cup {<<"error", "search">>}
                /\ srch' = [s1 EXCEPT !.resps = Append(@, "error")]
                /\ run' = [run EXCEPT !.orders = <<>>]
                /\ pc' = "loop"
           ELSE IF ~page.has_orders
           THEN \* result.body[obj_type] of a body without the key
                /\ srch' = [s1 EXCEPT !.resps = Append(@, "empty")]
                /\ run' = [run EXCEPT !.exc = "KeyError"]
                /\ pc' = "raised"
                /\ log' = log
           ELSE /\ srch' = [s1 EXCEPT !.obj_list = MapOrderDict(page.orders),
                                      !.cursor = page.cursor,
                                      !.resps = Append(@, "ok")]
                /\ log' = log
                /\ IF page.cursor = None
                   THEN /\ run' = [run EXCEPT !.orders = MapOrderDict(page.orders)]
                        /\ pc' = "loop"
                   ELSE /\ run' = run
                        /\ pc' = "search_next"
    /\ UNCHANGED <<report, cfg, call, connector, tz, now, apiOrders, db, written, props>>

\* SearchExtend with the bug of an assignment for extend: the page takes the
\* place of the objects collected so far
SearchExtend_overwrite(s, page) ==
    [s EXCEPT !.obj_list = MapOrderDict(page.orders),
              !.cursor = page.cursor,
              !.resps = Append(@, "ok")]

\* a successful follow-up response in SquareInterface.search: obj_list is
\* extended by the page, cursor is the cursor of the response or None
SearchExtend(s, page) ==
    [s EXCEPT !.obj_list = @ \o MapOrderDict(page.orders),
              !.cursor = page.cursor,
              !.resps = Append(@, "ok")]

\* SquareInterface.search, one round of the loop "while cursor"
SearchNext(ok) ==
    /\ pc = "search_next"
    /\ srch.cursor # None
    /\ LET page == ApiPage(srch.result, srch.cursor)
           s1 == [srch EXCEPT !.reqs = Append(@, srch.cursor)]
       IN  IF ~ok
           THEN \* is_error: logged; cursor keeps its value
                /\ srch.errors < MaxErrors
                /\ log' = log \cup {<<"error", "search">>}
                /\ srch' = [s1 EXCEPT !.errors = @ + 1, !.resps = Append(@, "error")]
                /\ run' = run
                /\ pc' = "search_next"
           ELSE /\ srch' = SearchExtend(s1, page)
                /\ log' = log
                /\ IF page.cursor = None
                   THEN /\ run' = [run EXCEPT !.orders = SearchExtend(s1, page).obj_list]
                        /\ pc' = "loop"
                   ELSE /\ run' = run
                        /\ pc' = "search_next"
    /\ UNCHANGED <<report, cfg, call, connector, tz, now, apiOrders, db, written, props>>

\* the duplicate test with the bug of comparing the id alone
OrdersDuplicate_id_only(update_count, order_id, updated_at, p) ==
    /\ update_count = 0
    /\ order_id = p.last_id

\* the duplicate test of Orders.pull: nothing updated yet in this pull, and
\* the order is the one the watermark names
OrdersDuplicate(update_count, order_id, updated_at, p) ==
    /\ update_count = 0
    /\ order_id = p.last_id
    /\ Some(updated_at) = p.last_updated

\* AfterOrder with the bug of setting the watermark whatever save_last is
AfterOrder_always_saves(r, dup, save_last) ==
    IF dup
    THEN [run |-> [r EXCEPT !.i = @ + 1], pc |-> "loop"]
    ELSE [run |-> [r EXCEPT !.update_count = @ + 1], pc |-> "set_last_updated"]

\* where Orders.pull stands after one order: a duplicate is passed over with
\* "continue"; else update_count += 1 and, with save_last, the watermark is set
AfterOrder(r, dup, save_last) ==
    IF dup
    THEN [run |-> [r EXCEPT !.i = @ + 1], pc |-> "loop"]
    ELSE IF save_last
    THEN [run |-> [r EXCEPT !.update_count = @ + 1], pc |-> "set_last_updated"]
    ELSE [run |-> [r EXCEPT !.update_count = @ + 1, !.i = @ + 1], pc |-> "loop"]

\* one round of the for loop of Orders.pull, up to update_count += 1
ProcessOrder ==
    /\ pc = "loop"
    /\ run.i <= Len(run.orders)
    /\ LET order == run.orders[run.i]
           c1 == IF run.from_raw THEN Ctx ELSE save_raw_order(Ctx, order)
           o1 == IF run.from_raw THEN order ELSE [order EXCEPT !._id = order.id]
           order_id == order.id
           updated_at == decode_datetime(order.updated_at)
           dup == OrdersDuplicate(run.update_count, order_id, updated_at, props)
       IN  \E c2 \in {IF dup THEN c1 ELSE update_order(c1, o1)} :
             LET entry == [id |-> order_id, updated_at |-> updated_at,
                           count |-> run.update_count,
                           stored |-> load_properties(db["config"], ConfigName),
                           updated |-> ~dup, exc |-> c2.exc]
                 r1 == [run EXCEPT !.trace = Append(@, entry)]
             IN  /\ db' = c2.db
                 /\ written' = c2.written
                 /\ log' = c2.log
                 /\ IF c2.exc # "none"
                    THEN /\ run' = [r1 EXCEPT !.exc = c2.exc]
                         /\ pc' = "raised"
                    ELSE /\ run' = AfterOrder(r1, dup, run.save_last).run
                         /\ pc' = AfterOrder(r1, dup, run.save_last).pc
    /\ UNCHANGED <<report, cfg, call, connector, tz, now, apiOrders, props, srch>>

\* Config.__setattr__ with auto_update: the property is set in memory and the
\* configuration set is stored
ConfigSetattr(ctx, name, p, prop_name, val) ==
    ConfigUpdate(ctx, name, [p EXCEPT ![prop_name] = val])

\* self.props.last_updated = updated_at
SetLastUpdated ==
    /\ pc = "set_last_updated"
    /\ LET order == run.orders[run.i]
           val == Some(decode_datetime(order.updated_at))
           c == ConfigSetattr(Ctx, ConfigName, props, "last_updated", val)
       IN  /\ props' = [props EXCEPT !.last_updated = val]
           /\ db' = c.db
           /\ written' = c.written
    /\ pc' = "set_last_id"
    /\ UNCHANGED <<report, cfg, call, connector, tz, now, apiOrders, run, srch, log>>

\* SetLastId with the bug of a stale variable: the id of the first order of
\* the pull is stored, not the id of the order just processed
SetLastId_stale ==
    /\ pc = "set_last_id"
    /\ LET order == run.orders[1]
           c == ConfigSetattr(Ctx, ConfigName, props, "last_id", order.id)
       IN  /\ props' = [props EXCEPT !.last_id = order.id]
           /\ db' = c.db
           /\ written' = c.written
    /\ pc' = "props_update"
    /\ UNCHANGED <<report, cfg, call, connector, tz, now, apiOrders, run, srch, log>>

\* self.props.last_id = order_id
SetLastId ==
    /\ pc = "set_last_id"
    /\ LET order == run.orders[run.i]
           c == ConfigSetattr(Ctx, ConfigName, props, "last_id", order.id)
       IN  /\ props' = [props EXCEPT !.last_id = order.id]
           /\ db' = c.db
           /\ written' = c.written
    /\ pc' = "props_update"
    /\ UNCHANGED <<report, cfg, call, connector, tz, now, apiOrders, run, srch, log>>

\* self.props.update(), and on to the next order
PropsUpdate ==
    /\ pc = "props_update"
    /\ LET c == ConfigUpdate(Ctx, ConfigName, props)
       IN  /\ db' = c.db
           /\ written' = c.written
    /\ run' = [run EXCEPT !.i = @ + 1]
    /\ pc' = "loop"
    /\ UNCHANGED <<report, cfg, call, connector, tz, now, apiOrders, props, srch, log>>

\* the loop of the pull is over
PullEnd ==
    /\ pc \in {"loop", "payouts_loop"}
    /\ run.i > Len(run.orders)
    /\ pc' = "done"
    /\ UNCHANGED <<report, cfg, call, connector, tz, now, apiOrders, db, written, props, run, srch, log>>

\* the call has returned (done) or raised: the process is idle again
Return ==
    /\ pc \in {"done", "raised"}
    /\ pc' = "idle"
    /\ run' = IdleRun
    /\ srch' = IdleSearch
    /\ log' = NoLog
    /\ UNCHANGED <<report, cfg, call, connector, tz, now, apiOrders, db, written, props>>

\* ------------------------------------------------------------ Catalog.pull
\* the lists of catalog objects the Catalog API holds for a search filter
CatalogHeld ==
    LET objs == {o \in CatalogObjects : o.has_data}
    IN  {<<>>} \cup {<<o>> : o \in objs} \cup {<<o1, o2>> : o1 \in objs, o2 \in objs}

\* Catalog.pull, while the Catalog API holds the objects held for the filter
\* of the pull: search returns its empty obj_list before any request, since
\* no API client serves the object type 'objects'; the loop runs over it
CatalogPull(save_last, kwargs, held) ==
    /\ connector = "catalog"
    /\ pc = "idle"
    /\ ApiType("objects") = None
    /\ srch' = [IdleSearch EXCEPT !.result = held]
    /\ LET span == ConnectorTimespan(kwargs, props, now)
           objects == <<>>
           st == CatalogLoop([ctx |-> Ctx, props |-> props, update_count |-> 0,
                              trace |-> <<>>],
                             SortedByUpdatedAt(objects), ConfigName, save_last)
       IN  /\ db' = st.ctx.db
           /\ written' = st.ctx.written
           /\ props' = st.props
           /\ log' = st.ctx.log
           /\ run' = [IdleRun EXCEPT !.save_last = save_last, !.props0 = props,
                                     !.db0 = db, !.trace = st.trace,
                                     !.update_count = st.update_count,
                                     !.exc = st.ctx.exc]
           /\ pc' = IF st.ctx.exc = "none" THEN "done" ELSE "raised"
    /\ UNCHANGED <<report, cfg, call, connector, tz, now, apiOrders>>

\* a call of Catalog.update_obj with a catalog object
CatalogUpdateObj(obj) ==
    /\ connector = "catalog"
    /\ pc = "idle"
    /\ LET c == update_obj(Ctx, obj)
       IN  /\ db' = c.db
           /\ written' = c.written
           /\ log' = c.log
           /\ run' = [IdleRun EXCEPT !.db0 = db, !.exc = c.exc]
           /\ pc' = IF c.exc = "none" THEN "done" ELSE "raised"
    /\ UNCHANGED <<report, cfg, call, connector, tz, now, apiOrders, props, srch>>

\* ---------------------------------------------------------- Locations.pull
\* Locations.pull: the listing of a successful response is saved location by
\* location; an error response is logged
LocationsPull(ok, listing) ==
    /\ connector = "locations"
    /\ pc = "idle"
    /\ LET c == IF ok THEN ForLocations(Ctx, listing)
                ELSE Log(Ctx, "error", "list_locations")
       IN  /\ db' = c.db
           /\ written' = c.written
           /\ log' = c.log
           /\ run' = [IdleRun EXCEPT !.db0 = db, !.orders = listing,
                                     !.update_count = IF ok THEN Len(listing) ELSE 0]
           /\ pc' = "done"
    /\ UNCHANGED <<report, cfg, call, connector, tz, now, apiOrders, props, srch>>

\* ------------------------------------------------------------ Payouts.pull
\* Payouts.pull up to the first request of Payouts.read
PayoutsPullBegin(kwargs, listing) ==
    /\ connector = "payouts"
    /\ pc = "idle"
    /\ run' = [IdleRun EXCEPT !.i = 1, !.props0 = props, !.db0 = db]
    /\ srch' = [IdleSearch EXCEPT !.result = listing]
    /\ pc' = "payouts_first"
    /\ UNCHANGED <<report, cfg, call, connector, tz, now, apiOrders, db, written, props, log>>

\* Payouts.read: the first response
PayoutsReadFirst(ok) ==
    /\ pc = "payouts_first"
    /\ LET page == ListPage(srch.result, None)
           s1 == [srch EXCEPT !.reqs = Append(@, None)]
       IN  IF ~ok
           THEN /\ log' = log \cup {<<"error", "list_payouts">>}
                /\ srch' = [s1 EXCEPT !.resps = Append(@, "error")]
                /\ run' = run
                /\ pc' = "done"
           ELSE IF page.empty
           THEN /\ srch' = [s1 EXCEPT !.resps = Append(@, "empty")]
                /\ run' = run
                /\ log' = log
                /\ pc' = "done"
           ELSE /\ srch' = [s1 EXCEPT !.obj_list = page.items, !.cursor = page.cursor,
                                      !.resps = Append(@, "ok")]
                /\ log' = log
                /\ IF page.cursor = None
                   THEN /\ run' = [run EXCEPT !.orders = page.items]
                        /\ pc' = "payouts_loop"
                   ELSE /\ run' = run
                        /\ pc' = "payouts_next"
    /\ UNCHANGED <<report, cfg, call, connector, tz, now, apiOrders, db, written, props>>

\* Payouts.read: the response had a cursor; list_payouts is called again with
\* begin_time and end_time only, and its body is read without a check
PayoutsReadNext(ok) ==
    /\ pc = "payouts_next"
    /\ Len(srch.reqs) < MaxReads
    /\ LET page == ListPage(srch.result, None)
           s1 == [srch EXCEPT !.reqs = Append(@, None)]
       IN  IF ~ok
           THEN \* result.body['payouts'] of an error body
                /\ srch' = [s1 EXCEPT !.resps = Append(@, "error")]
                /\ run' = [run EXCEPT !.exc = "KeyError"]
                /\ pc' = "raised"
           ELSE /\ srch' = [s1 EXCEPT !.obj_list = @ \o page.items,
                                      !.cursor = page.cursor,
                                      !.resps = Append(@, "ok")]
                /\ IF page.cursor = None
                   THEN /\ run' = [run EXCEPT !.orders = srch.obj_list \o page.items]
                        /\ pc' = "payouts_loop"
                   ELSE /\ run' = run
                        /\ pc' = "payouts_next"
    /\ UNCHANGED <<report, cfg, call, connector, tz, now, apiOrders, db, written, props, log>>

\* one round of the for loop of Payouts.pull: the payout is saved, then its
\* entries are pulled
PayoutsProcess(ok) ==
    /\ pc = "payouts_loop"
    /\ run.i <= Len(run.orders)
    /\ LET payout == run.orders[run.i]
           c1 == update_payout(Ctx, payout)
           c2 == IF c1.exc # "none" THEN c1 ELSE PayoutEntriesPull(c1, payout.id, ok)
       IN  /\ db' = c2.db
           /\ written' = c2.written
           /\ log' = c2.log
           /\ IF c2.exc # "none"
              THEN /\ run' = [run EXCEPT !.exc = c2.exc]
                   /\ pc' = "raised"
              ELSE /\ run' = [run EXCEPT !.i = @ + 1, !.update_count = @ + 1]
                   /\ pc' = "payouts_loop"
    /\ UNCHANGED <<report, cfg, call, connector, tz, now, apiOrders, props, srch>>

\* --------------------------------------------------------------------- next
\* the keyword arguments a pull is called with
PullKwargs ==
    {NoKwargs}
    \cup {[NoKwargs EXCEPT !.keys = {"begin"}, !.begin = Some(t)] : t \in Times}
    \cup {[NoKwargs EXCEPT !.keys = {"thru"}, !.thru = Some(t)] : t \in Times}
    \cup {[NoKwargs EXCEPT !.keys = {"begin"}]}
    \cup {[NoKwargs EXCEPT !.keys = {"begin", "thru"}, !.begin = Some(START_MIN),
                           !.thru = Some(SQUAREDOWN_START)]}

\* the shapes an order of the account takes
PullBodies(oid) == IF oid = <<"o1">> THEN {"sale"} ELSE {"refund", "bad"}

Next ==
    \/ Tick
    \/ \E oid \in OrderIds : \E body \in PullBodies(oid) : ApiUpdate(oid, body)
    \/ \E oid \in OrderIds : FixOrder(oid)
    \/ \E sl \in BOOLEAN, fr \in BOOLEAN, kw \in PullKwargs : OrdersPullBegin(sl, fr, kw)
    \/ \E ok \in BOOLEAN : SearchFirst(ok)
    \/ \E ok \in BOOLEAN : SearchNext(ok)
    \/ ProcessOrder
    \/ SetLastUpdated
    \/ SetLastId
    \/ PropsUpdate
    \/ PullEnd
    \/ Return
    \/ \E sl \in BOOLEAN, kw \in PullKwargs, held \in CatalogHeld : CatalogPull(sl, kw, held)
    \/ \E obj \in CatalogObjects : CatalogUpdateObj(obj)
    \/ \E ok \in BOOLEAN, listing \in LocationListings : LocationsPull(ok, listing)
    \/ \E kw \in PullKwargs, listing \in PayoutListings : PayoutsPullBegin(kw, listing)
    \/ \E ok \in BOOLEAN : PayoutsReadFirst(ok)
    \/ \E ok \in BOOLEAN : PayoutsReadNext(ok)
    \/ \E ok \in BOOLEAN : PayoutsProcess(ok)

Spec == Init /\ [][Next]_vars

\* ================================================================== claims
\* the collections whose documents carry the object id in the field id
IdCollections ==
    {"square_orders", "raw_square_orders", "square_order_tenders",
     "square_payments", "square_order_itemizations", "square_refunds",
     "square_catalog_items", "square_locations", "square_payouts",
     "square_payout_entries"}

\* C1: after any sequence of pulls no collection holds two documents for the
\* same external object id: every document is stored under _id = the id of
\* its object, _id is unique in the collection, and the collection holds as
\* many documents as distinct ids were ever written to it.
C1_OneDocumentPerId ==
    \A c \in Collections :
        /\ \A d1, d2 \in db[c] : d1._id = d2._id => d1 = d2
        /\ {d._id : d \in db[c]} = written[c]
        /\ Cardinality(db[c]) = Cardinality(written[c])
        /\ c \in IdCollections =>
              /\ \A d \in db[c] : d.id = d._id
              /\ \A d1, d2 \in db[c] : d1.id = d2.id => d1 = d2

\* a pull has written an order for the second time: the stored order and its
\* raw document of before the pull were replaced, not doubled
C1_Witness ==
    /\ pc = "done"
    /\ connector = "orders"
    /\ \E d0 \in run.db0["square_orders"], d \in db["square_orders"] :
          d._id = d0._id /\ d # d0
    /\ \E d0 \in run.db0["raw_square_orders"], d \in db["raw_square_orders"] :
          d._id = d0._id /\ d # d0
    /\ Cardinality(db["square_order_itemizations"]) >= 2

\* a second sync starts from what the first left, as a call of its own
Again(ctx) == [ctx EXCEPT !.exc = "none", !.log = NoLog]

\* syncing x twice in a row with handler f leaves the database as syncing it
\* once does
SameTwice(f(_, _), ctx, x) == f(Again(f(ctx, x)), x).db = f(ctx, x).db

\* what Orders.pull does with an order it processes
SyncOrder(ctx, order) ==
    update_order(save_raw_order(ctx, order), [order EXCEPT !._id = order.id])

\* every order the account can hold
AnyOrders ==
    {OrderDict(ApiOrder(oid, t, body)) : oid \in OrderIds, t \in ApiTimes, body \in Bodies}

\* C2: upsert is idempotent for a given id: syncing the same unchanged API
\* object twice in a row leaves every collection in the same state as
\* syncing it once, for orders, catalog objects, payouts, payout entries and
\* locations, whatever the database holds before.
C2_Idempotent ==
    pc = "idle" =>
        /\ connector = "orders" => \A o \in AnyOrders : SameTwice(SyncOrder, Ctx, o)
        /\ connector = "catalog" => \A obj \in CatalogObjects : SameTwice(update_obj, Ctx, obj)
        /\ connector = "locations" => \A l \in Locations : SameTwice(update_location, Ctx, l)
        /\ connector = "payouts" =>
              /\ \A p \in Payouts : SameTwice(update_payout, Ctx, p)
              /\ \A p \in PayoutIds : \A k \in 1..Len(ApiPayoutEntries(p)) :
                    SameTwice(update_payout_entry, Ctx, ApiPayoutEntries(p)[k])

\* the database holds an earlier version of an order with refunds, and
\* syncing the order changes the database the first time and not the second
C2_Witness ==
    /\ pc = "idle"
    /\ connector = "orders"
    /\ \E o \in AnyOrders :
          /\ o.body = "refund"
          /\ \E d \in db["square_orders"] :
                d._id = o.id /\ d.updated_at # decode_datetime(o.updated_at)
          /\ SyncOrder(Ctx, o).exc = "none"
          /\ SyncOrder(Ctx, o).db # db
          /\ SameTwice(SyncOrder, Ctx, o)

\* the entry of the order a step of the pull has just gone through
LastEntry(r) == r.trace[Len(r.trace)]

\* C3: when square_orders holds a document with _fixed true for the id of
\* the order Orders.pull passes to update_order, the step leaves that
\* document as it is, no DuplicateKeyError leaves update_order, and when
\* update_order gets to its final replace the refusal is logged as a warning,
\* update_order returns and the pull goes on (the order counts as updated).
C3_FixedOrderKept ==
    [][ \A d \in db["square_orders"] :
          ( /\ pc = "loop"
            /\ run.i <= Len(run.orders)
            /\ Len(run'.trace) = Len(run.trace) + 1
            /\ LastEntry(run').updated
            /\ d._fixed = "true"
            /\ d._id = run.orders[run.i].id )
          => /\ d \in db'["square_orders"]
             /\ LastEntry(run').exc # "DuplicateKeyError"
             /\ LastEntry(run').exc = "none" =>
                   /\ <<"warning", "fixed_order">> \in log'
                   /\ pc' \in {"loop", "set_last_updated"}
                   /\ run'.update_count = run.update_count + 1
      ]_vars

\* the pull has just passed a newer version of a fixed order to update_order:
\* the warning is logged, the fixed document is there, the pull goes on
C3_Witness ==
    /\ pc \in {"loop", "set_last_updated"}
    /\ run.trace # <<>>
    /\ LastEntry(run).updated
    /\ LastEntry(run).exc = "none"
    /\ <<"warning", "fixed_order">> \in log
    /\ \E d \in db["square_orders"] :
          /\ d._fixed = "true"
          /\ d._id = LastEntry(run).id
          /\ d.updated_at # LastEntry(run).updated_at

\* the rule of the duplicate test, on the entries of a pull: an object is
\* passed over exactly when nothing was updated before it in the pull and
\* the stored watermark names its id and its updated_at; a pass leaves the
\* stored watermark as it was
SkipRule(trace) ==
    \A k \in 1..Len(trace) :
        LET e == trace[k]
        IN  /\ (~e.updated) <=>
                  /\ \A j \in 1..(k - 1) : ~trace[j].updated
                  /\ e.id = e.stored.last_id
                  /\ Some(e.updated_at) = e.stored.last_updated
            /\ (~e.updated /\ k < Len(trace)) => trace[k + 1].stored = e.stored

\* the lists of catalog objects a search could hand to the loop of Catalog.pull
CatalogTrials == CatalogHeld

\* the loop of Catalog.pull over a list, from the state of the connector
CatalogRun(ctx, p, objects, save_last) ==
    CatalogLoop([ctx |-> Again(ctx), props |-> p, update_count |-> 0, trace |-> <<>>],
                SortedByUpdatedAt(objects), ConfigName, save_last)

\* C4: in Orders.pull and Catalog.pull a retrieved object is skipped (not
\* updated, watermark not rewritten) exactly when no object has yet been
\* processed in this pull and its id equals the persisted last_id and its
\* decoded updated_at equals the persisted last_updated; a match of the id
\* alone or of the timestamp alone is processed, and after one processed
\* object none is skipped.  For Catalog.pull the loop is run over every list
\* of CatalogTrials, twice in a row.
C4_SkipExactlyBoundary ==
    /\ connector = "orders" =>
          /\ SkipRule(run.trace)
          /\ pc \in {"set_last_updated", "set_last_id", "props_update"} =>
                LastEntry(run).updated
    /\ (connector = "catalog" /\ pc = "idle") =>
          \A l1 \in CatalogTrials, l2 \in CatalogTrials :
              LET st1 == CatalogRun(Ctx, props, l1, TRUE)
                  st2 == CatalogRun(st1.ctx, st1.props, l2, TRUE)
              IN  SkipRule(st1.trace) /\ SkipRule(st2.trace)

\* a pull has passed over the order of the watermark and processed the order
\* after it
C4_Witness ==
    /\ connector = "orders"
    /\ pc = "done"
    /\ Len(run.trace) = 2
    /\ ~run.trace[1].updated
    /\ run.trace[2].updated
    /\ run.trace[2].updated_at = run.trace[1].updated_at

IsProcessed(e) == e.updated /\ e.exc = "none"

\* the entries of the orders the pull has processed, in order
Processed(trace) == SelectSeq(trace, IsProcessed)

\* the watermark the configuration collection holds for the connector
Stored(database) == load_properties(database["config"], ConfigName)

\* C5: with save_last = True, after each order Orders.pull processes the
\* persisted watermark holds that order's id as last_id and its updated_at
\* as last_updated: between two orders and when the pull has ended, the
\* stored watermark names the last order processed, and it is the watermark
\* of before the pull when none was processed.
C5_WatermarkFollows ==
    (connector = "orders" /\ run.save_last /\ pc \in {"loop", "done", "raised"}) =>
        IF Processed(run.trace) = <<>>
        THEN Stored(db) = Stored(run.db0)
        ELSE LET e == Processed(run.trace)[Len(Processed(run.trace))]
             IN  Stored(db) = [last_id |-> e.id, last_updated |-> Some(e.updated_at)]

\* a pull with save_last has ended after two orders: the stored watermark
\* names the second, and was another before the pull
C5_Witness ==
    /\ connector = "orders"
    /\ pc = "done"
    /\ run.save_last
    /\ Len(Processed(run.trace)) = 2
    /\ Stored(db).last_id = run.trace[Len(run.trace)].id
    /\ Stored(db).last_id # run.trace[1].id
    /\ Stored(run.db0) # Stored(db)

\* C6: with save_last = False, Orders.pull and Catalog.pull leave the
\* watermark unchanged, in memory and in the persisted configuration record,
\* whatever objects are retrieved and processed.  For Catalog.pull the loop
\* is also run over every list of CatalogTrials.
C6_WatermarkUntouched ==
    /\ (connector \in {"orders", "catalog"} /\ pc # "idle" /\ ~run.save_last) =>
          /\ props = run.props0
          /\ db["config"] = run.db0["config"]
    /\ (connector = "catalog" /\ pc = "idle") =>
          \A l \in CatalogTrials :
              LET st == CatalogRun(Ctx, props, l, FALSE)
              IN  st.props = props /\ st.ctx.db["config"] = db["config"]

\* a pull without save_last has processed an order newer than the watermark
\* and ended: the watermark still names the older order
C6_Witness ==
    /\ connector = "orders"
    /\ pc = "done"
    /\ ~run.save_last
    /\ run.update_count >= 1
    /\ props.last_updated # None
    /\ Stored(db) = props
    /\ LastEntry(run).updated_at > props.last_updated[1]

\* the keyword arguments for the start of a window: begin and begin_str each
\* left out, passed as None or passed with a value (begin_str also empty)
TimespanKwargs ==
    {[NoKwargs EXCEPT !.keys = ks, !.begin = b, !.begin_str = bs] :
        ks \in SUBSET {"begin", "begin_str"},
        b \in {None} \cup {Some(t) : t \in Times},
        bs \in {None, Some([kind |-> "empty"])}
               \cup {Some([kind |-> "dt", wall |-> t, off |-> 0]) : t \in Times}}

\* an argument is passed with a value
Given(kwargs, k) ==
    /\ k \in kwargs.keys
    /\ kwargs[k] # None
    /\ k \in {"begin_str", "thru_str"} => StrTruthy(kwargs[k])

\* C7: Connector.timespan chooses the start of the pull window as the
\* explicit begin / begin_str argument when one is passed; otherwise the
\* persisted last_updated of the configuration set when it is set; otherwise
\* the minimum start time of SQUAREDOWN_START_STR.
C7_StartOfWindow ==
    \A kw \in TimespanKwargs :
        ConnectorTimespan(kw, props, now).start =
            IF Given(kw, "begin") THEN kw.begin[1]
            ELSE IF Given(kw, "begin_str") THEN ParseStr(kw.begin_str[1])
            ELSE IF props.last_updated # None THEN props.last_updated[1]
            ELSE SQUAREDOWN_START

\* the number of pages of a result
Pages(result) == (Len(result) + PageSize - 1) \div PageSize

\* C8: when every page request succeeds, search('orders', filter) issues one
\* request per page, the first without a cursor and each follow-up with the
\* cursor of the response before it, stops at the first response without a
\* cursor, and returns the objects of all pages in page order, none lost and
\* none repeated.
C8_PagesInOrder ==
    ( /\ connector = "orders"
      /\ srch.reqs # <<>>
      /\ \A k \in 1..Len(srch.resps) : srch.resps[k] = "ok" ) =>
        /\ srch.reqs[1] = None
        /\ \A k \in 2..Len(srch.reqs) :
              /\ ApiPage(srch.result, srch.reqs[k - 1]).cursor # None
              /\ srch.reqs[k] = ApiPage(srch.result, srch.reqs[k - 1]).cursor
        /\ Len(srch.resps) = Len(srch.reqs)
        /\ srch.obj_list =
              MapOrderDict(SubSeq(srch.result, 1, Len(srch.reqs) * PageSize))
        /\ pc = "search_next" <=>
              ApiPage(srch.result, srch.reqs[Len(srch.reqs)]).cursor # None
        /\ pc # "search_next" =>
              /\ Len(srch.reqs) = Pages(srch.result)
              /\ run.orders = MapOrderDict(srch.result)
              /\ \A i, j \in 1..Len(run.orders) :
                    run.orders[i].id = run.orders[j].id => i = j

\* a search of two pages has returned: two requests, the second with the
\* cursor of the first response, and both orders in the list
C8_Witness ==
    /\ connector = "orders"
    /\ pc = "loop"
    /\ srch.resps = <<"ok", "ok">>
    /\ srch.reqs[2] # None
    /\ Len(run.orders) = 2

\* C9: there are no retries: when a follow-up page request of search returns
\* an error, the failed request is not issued again with the same cursor, and
\* search terminates returning the objects collected so far.
C9_NoRetry ==
    connector = "orders" =>
        /\ \A i, j \in 1..Len(srch.reqs) : srch.reqs[i] = srch.reqs[j] => i = j
        /\ ( /\ Len(srch.resps) >= 2
              /\ srch.resps[Len(srch.resps)] = "error" ) =>
                /\ pc # "search_next"
                /\ <<"error", "search">> \in log
                /\ run.orders = srch.obj_list

\* C10: when the first search request of an Orders.pull returns an API error
\* the error is logged, search returns an empty list, and the pull completes
\* without writing to the orders collection, the raw orders collection, any
\* fan-out collection or the watermark.
C10_FirstErrorNoWrites ==
    (connector = "orders" /\ srch.resps # <<>> /\ srch.resps[1] = "error") =>
        /\ <<"error", "search">> \in log
        /\ srch.obj_list = <<>>
        /\ run.orders = <<>>
        /\ pc \in {"loop", "done"}
        /\ run.exc = "none"
        /\ run.update_count = 0
        /\ db = run.db0
        /\ props = run.props0

\* the first request of a pull over a window with orders has failed and the
\* pull has completed: the database is the one of before the pull
C10_Witness ==
    /\ connector = "orders"
    /\ pc = "done"
    /\ srch.resps = <<"error">>
    /\ srch.result # <<>>
    /\ run.save_last
    /\ db = run.db0
    /\ db["square_orders"] = {}

\* the order as update_order hands it to the process_ methods
Prepared(order_in) ==
    LET o1 == [decode_order(order_in) EXCEPT !._id = order_in.id]
    IN  apply_order_customizations([o1 EXCEPT !.state = get_order_state(o1).state])

TenderTypes == {"CARD", "CASH", "OTHER"}

TenderAmounts == {0, 5}

\* the order document update_order leaves for the order, unless a fixed
\* document kept its place
OrderSaved(ctx, order) ==
    \/ \E d \in ctx.db["square_orders"] : d._id = order.id /\ d._fixed = "true"
    \/ \E d \in ctx.db["square_orders"] :
          d._id = order.id /\ d.updated_at = decode_datetime(order.updated_at)

\* C11: in process_tenders, when the payment lookup for a tender fails, no
\* error is reported if the tender's amount is 0 or its type is OTHER or
\* CASH, and an error is logged in every other case; in all cases the tender
\* document is upserted, no payment document is written for that tender, and
\* processing goes on with the remaining tenders and with saving the order.
C11_TenderWithoutPayment ==
    (connector = "orders" /\ pc = "idle") =>
        /\ \A oid \in OrderIds, ty \in TenderTypes, am \in TenderAmounts :
              LET order == Prepared(OrderDict(ApiOrder(oid, now, "sale")))
                  t == [id |-> oid \o <<"t1">>, type |-> ty, amount |-> am,
                        card |-> "CAPTURED", paid |-> FALSE]
                  next == [id |-> oid \o <<"t2">>, type |-> "CARD", amount |-> 5,
                           card |-> "CAPTURED", paid |-> TRUE]
                  c == ForTenders(Again(Ctx), <<t, next>>, order)
              IN  /\ c.exc = "none"
                  /\ (<<"error", "get_payment">> \in c.log) <=>
                        ~(am = 0 \/ ty \in {"OTHER", "CASH"})
                  /\ \E d \in c.db["square_order_tenders"] :
                        d._id = t.id /\ d.type = ty /\ d.amount = am
                  /\ {d \in c.db["square_payments"] : d._id = t.id} =
                        {d \in db["square_payments"] : d._id = t.id}
                  /\ \E d \in c.db["square_order_tenders"] : d._id = next.id
                  /\ \E d \in c.db["square_payments"] : d._id = next.id
        /\ \A oid \in OrderIds, body \in {"open", "refund"} :
              LET o == OrderDict(ApiOrder(oid, now, body))
                  c == SyncOrder(Again(Ctx), o)
              IN  /\ c.exc = "none"
                  /\ (<<"error", "get_payment">> \in c.log) <=> body = "open"
                  /\ \A k \in 1..Len(BodyTenders(body, oid)) :
                        \E d \in c.db["square_order_tenders"] :
                            d._id = BodyTenders(body, oid)[k].id
                  /\ OrderSaved(c, o)

\* a pull has saved an order with a CASH tender for which the Payments API
\* holds no payment: the tender document and the order document are there,
\* a payment document is not
C11_Witness ==
    /\ connector = "orders"
    /\ pc = "idle"
    /\ \E d \in db["square_order_tenders"] :
          /\ d.type = "CASH"
          /\ \A q \in db["square_payments"] : q._id # d._id
          /\ \E o \in db["square_orders"] : o._id = d.order_id

\* the collections update_order fans an order out to with the properties of
\* the order
FanOut ==
    {"square_order_tenders", "square_order_fulfillments", "square_order_itemizations"}

\* the _ids of the documents update_order fans the order out to
FanOutIds(order) ==
    [square_order_tenders |->
        {BodyTenders(order.body, order.id)[k].id :
            k \in 1..Len(BodyTenders(order.body, order.id))},
     square_order_fulfillments |->
        {BodyFulfillments(order.body)[k].uid : k \in 1..Len(BodyFulfillments(order.body))},
     square_order_itemizations |->
        {ItemizationId(order.id, BodyLineItems(order.body)[k].uid) :
            k \in 1..Len(BodyLineItems(order.body))}
        \cup UNION {{ItemizationId(order.id, BodyReturns(order.body)[r].return_line_items[k].uid) :
                        k \in 1..Len(BodyReturns(order.body)[r].return_line_items)} :
                    r \in 1..Len(BodyReturns(order.body))}]

\* C12: every tender, fulfillment, line-item itemization and return
\* itemization document written by update_order carries order_id equal to
\* the id of the order it was fanned out from and order_state equal to the
\* state stored on the order's document by the same call, the derived
\* OPEN_TENDER states included.  Checked for a call on every order from the
\* database reached, and on the documents the database holds.
C12_BackReference ==
    (connector = "orders" /\ pc = "idle") =>
        /\ \A o \in AnyOrders :
              LET c == SyncOrder(Again(Ctx), o)
              IN  c.exc = "none" =>
                    /\ \A col \in FanOut : \A id \in FanOutIds(o)[col] :
                          \E d \in c.db[col] :
                              /\ d._id = id
                              /\ d.order_id = o.id
                              /\ d.order_state = Prepared(o).state
                              /\ \A od \in c.db["square_orders"] :
                                    (od._id = o.id /\ od._fixed # "true") =>
                                        od.state = d.order_state
                    /\ OrderSaved(c, o)
        /\ \A col \in FanOut : \A d \in db[col] :
              /\ d.order_id \in OrderIds
              /\ \A od \in db["square_orders"] :
                    (od._id = d.order_id /\ od.updated_at = d.order_updated_at) =>
                        od.state = d.order_state

\* the database holds a return itemization and a tender that point to their
\* stored order and carry its state, and a call on an OPEN order with an
\* AUTHORIZED tender writes documents with the state OPEN_TENDER_AUTHORIZED
C12_Witness ==
    /\ connector = "orders"
    /\ pc = "idle"
    /\ \E d \in db["square_order_itemizations"], t \in db["square_order_tenders"],
          od \in db["square_orders"] :
          /\ d.itemization_type = "return"
          /\ d.order_id = od._id /\ d.order_state = od.state
          /\ t.order_id = od._id /\ t.order_state = od.state
    /\ \E o \in AnyOrders :
          LET c == SyncOrder(Again(Ctx), o)
          IN  /\ c.exc = "none"
              /\ \E d \in c.db["square_order_fulfillments"], od \in c.db["square_orders"] :
                    /\ d.order_id = o.id /\ od._id = o.id
                    /\ d.order_state = <<"OPEN_TENDER", "AUTHORIZED">>
                    /\ od.state = d.order_state

\* the first tender, in list order, whose card status is not CAPTURED: its
\* position, 0 when every tender is CAPTURED
RECURSIVE FirstNotCaptured(_, _)
FirstNotCaptured(tenders, k) ==
    IF k > Len(tenders) THEN 0
    ELSE IF tenders[k].card # "CAPTURED" THEN k
    ELSE FirstNotCaptured(tenders, k + 1)

\* C13: get_order_state returns the order's own state unchanged when it is
\* not OPEN; for an OPEN order with tenders it returns OPEN_TENDER_<status>
\* for the first tender (in list order) whose card status is not CAPTURED,
\* and OPEN when every tender is CAPTURED; for an OPEN order with no tenders
\* it returns OPEN_TENDER_MISSING.
\* Checked for the orders of every shape updated at the current instant.
C13_OrderState ==
    \A oid \in OrderIds, body \in Bodies :
        LET o == OrderDict(ApiOrder(oid, now, body))
            tenders == BodyTenders(o.body, o.id)
            k == FirstNotCaptured(tenders, 1)
            r == get_order_state(o)
        IN  /\ r.exc = "none"
            /\ r.state =
                  IF o.state # <<"OPEN">> THEN o.state
                  ELSE IF tenders = <<>> THEN <<"OPEN_TENDER", "MISSING">>
                  ELSE IF k = 0 THEN <<"OPEN">>
                  ELSE <<"OPEN_TENDER", tenders[k].card>>

\* C14: Catalog.pull saves what it retrieves: for every catalog object the
\* API holds for the filter of the pull (the object type, updated at or after
\* the window start), after Catalog.pull the collection contains a document
\* with that object's id, except the boundary object equal to the watermark.
C14_CatalogSaved ==
    (connector = "catalog" /\ pc = "done") =>
        \A k \in 1..Len(srch.result) :
            LET obj == srch.result[k]
            IN  \/ /\ obj.id = run.props0.last_id
                   /\ Some(decode_datetime(obj.updated_at)) = run.props0.last_updated
                \/ \E d \in db["square_catalog_items"] : d._id = obj.id

\* ------------------------------------------------- Config used on its own
\* The names of configuration sets, the property names and the values a
\* caller of Config works with.
SetNames == {<<"set1">>}

PropNames == {"p1", "p2"}

PropVals == {1, 2}

\* Config.reserved: the names that are attributes of the object
reserved == {"auto_update", "mdb", "db_name", "mongo_client"}

\* self._props[prop_name] = val
PropSet(p, prop_name, val) ==
    [x \in DOMAIN p \cup {prop_name} |-> IF x = prop_name THEN val ELSE p[x]]

\* self.props.pop(prop_name, None)
PropPop(p, prop_name) == [x \in DOMAIN p \ {prop_name} |-> p[x]]

\* Config.__getattr__: the property, or None when the set does not hold it
Config__getattr__(o, prop_name) ==
    IF prop_name \in DOMAIN o.props THEN Some(o.props[prop_name]) ELSE None

\* Config.__getitem__
Config__getitem__(o, prop_name) == Config__getattr__(o, prop_name)

\* Config.load_properties: the props are reset, the name is set, and the
\* props of the stored set of that name are taken when there is one
Config_load_properties(ctx, o, name) ==
    LET hit == {d \in ctx.db["config"] : d._id = name}
    IN  [o EXCEPT !.name = name,
                  !.props = IF hit # {} THEN (CHOOSE d \in hit : TRUE).props
                            ELSE EmptyProps]

\* Config.__init__
Config__init__(ctx, name) ==
    Config_load_properties(ctx, [NoConfig EXCEPT !.auto_update = TRUE], name)

\* Config.update
Config_update(ctx, o) == ConfigUpdate(ctx, o.name, o.props)

Config__setattr___never_stores(ctx, o, prop_name, val) ==
    IF prop_name = "auto_update"
    THEN [o |-> [o EXCEPT !.auto_update = val], ctx |-> ctx]
    ELSE [o |-> [o EXCEPT !.props = PropSet(@, prop_name, val)], ctx |-> ctx]

Config__setattr___always_stores(ctx, o, prop_name, val) ==
    IF prop_name = "auto_update"
    THEN [o |-> [o EXCEPT !.auto_update = val], ctx |-> ctx]
    ELSE LET o1 == [o EXCEPT !.props = PropSet(@, prop_name, val)]
         IN  [o |-> o1, ctx |-> Config_update(ctx, o1)]

\* Config.__setattr__: a reserved name is an attribute of the object; any
\* other name is a property, stored at once when auto_update is set
Config__setattr__(ctx, o, prop_name, val) ==
    IF prop_name \in reserved
    THEN [o |-> IF prop_name = "auto_update" THEN [o EXCEPT !.auto_update = val] ELSE o,
          ctx |-> ctx]
    ELSE LET o1 == [o EXCEPT !.props = PropSet(@, prop_name, val)]
         IN  [o |-> o1, ctx |-> IF o1.auto_update THEN Config_update(ctx, o1) ELSE ctx]

\* Config.__setitem__
Config__setitem__(ctx, o, prop_name, val) == Config__setattr__(ctx, o, prop_name, val)

Config__delattr___keeps(o, prop_name) == o

\* Config.__delattr__
Config__delattr__(o, prop_name) == [o EXCEPT !.props = PropPop(@, prop_name)]

Config_delete_keeps_name(ctx, o) ==
    IF o.name # None
    THEN [o |-> o, ctx |-> [ctx EXCEPT !.db["config"] = delete_one(@, o.name)]]
    ELSE [o |-> o, ctx |-> ctx]

\* Config.delete
Config_delete(ctx, o) ==
    IF o.name # None
    THEN [o |-> [o EXCEPT !.name = None, !.props = EmptyProps],
          ctx |-> [ctx EXCEPT !.db["config"] = delete_one(@, o.name)]]
    ELSE [o |-> o, ctx |-> ctx]

\* what an operation on the Config object leaves behind: the object, the
\* database, and the record of the operation and of the state before it
ConfigStep(r, op) ==
    /\ cfg' = [r.o EXCEPT !.op = op, !.stored0 = db["config"], !.name0 = cfg.name,
                          !.props0 = cfg.props]
    /\ db' = r.ctx.db
    /\ written' = r.ctx.written
    /\ UNCHANGED <<report, call, connector, tz, now, apiOrders, props, pc, run, srch, log>>

\* config = Config(name)
ConfigInit(name) ==
    /\ cfg.op = <<"none">>
    /\ ConfigStep([o |-> Config__init__(Ctx, name), ctx |-> Ctx], <<"init">>)

\* config.load_properties(name)
ConfigLoad(name) ==
    /\ cfg.op # <<"none">>
    /\ ConfigStep([o |-> Config_load_properties(Ctx, cfg, name), ctx |-> Ctx], <<"load">>)

\* config.auto_update = val
ConfigSetAutoUpdate(val) ==
    /\ cfg.op # <<"none">>
    /\ ConfigStep(Config__setattr__(Ctx, cfg, "auto_update", val), <<"auto_update">>)

\* config.prop_name = val
ConfigSetAttr(prop_name, val) ==
    /\ cfg.op # <<"none">>
    /\ ConfigStep(Config__setattr__(Ctx, cfg, prop_name, val),
                  <<"setattr", prop_name, val>>)

\* config[prop_name] = val
ConfigSetItem(prop_name, val) ==
    /\ cfg.op # <<"none">>
    /\ ConfigStep(Config__setitem__(Ctx, cfg, prop_name, val),
                  <<"setitem", prop_name, val>>)

\* del config.prop_name
ConfigDelAttr(prop_name) ==
    /\ cfg.op # <<"none">>
    /\ ConfigStep([o |-> Config__delattr__(cfg, prop_name), ctx |-> Ctx],
                  <<"delattr", prop_name>>)

\* config.update()
ConfigUpdateCall ==
    /\ cfg.op # <<"none">>
    /\ ConfigStep([o |-> cfg, ctx |-> Config_update(Ctx, cfg)], <<"update">>)

\* config.delete()
ConfigDelete ==
    /\ cfg.op # <<"none">>
    /\ ConfigStep(Config_delete(Ctx, cfg), <<"delete">>)

InitConfig ==
    /\ connector = "none"
    /\ tz = 0
    /\ now = SQUAREDOWN_START
    /\ apiOrders = {}
    /\ db = EmptyDb
    /\ written = EmptyDb
    /\ props = NoProps
    /\ pc = "idle"
    /\ run = IdleRun
    /\ srch = IdleSearch
    /\ log = NoLog
    /\ cfg = NoConfig
    /\ call = NoCall
    /\ report = NoReport

NextConfig ==
    \/ \E name \in SetNames \cup {None} : ConfigInit(name)
    \/ \E name \in SetNames \cup {None} : ConfigLoad(name)
    \/ \E val \in BOOLEAN : ConfigSetAutoUpdate(val)
    \/ \E prop_name \in PropNames, val \in PropVals : ConfigSetAttr(prop_name, val)
    \/ \E prop_name \in PropNames, val \in PropVals : ConfigSetItem(prop_name, val)
    \/ \E prop_name \in PropNames : ConfigDelAttr(prop_name)
    \/ ConfigUpdateCall
    \/ ConfigDelete

SpecConfig == InitConfig /\ [][NextConfig]_vars

\* --------------------------------------------- timespan called on its own
\* the datetime arguments and the string arguments of a call: None, a
\* datetime; None, the empty string, a datetime string of either offset
DatetimeArgs == {None} \cup {Some(t) : t \in Times}

Weeks == {1, 2}

StringArgs ==
    {None, Some([kind |-> "empty"])}
    \cup {Some([kind |-> "dt", wall |-> t + o, off |-> o]) : t \in Times, o \in TzOffsets}
    \cup {Some([kind |-> "week", week |-> w, off |-> o]) : w \in Weeks, o \in TzOffsets}

\* the keyword arguments of a call: each keyword left out or passed
CallKwargs ==
    {kw \in [keys : SUBSET {"begin", "begin_str", "thru", "thru_str"},
             begin : DatetimeArgs, begin_str : StringArgs,
             thru : DatetimeArgs, thru_str : StringArgs] :
        \A k \in {"begin", "begin_str", "thru", "thru_str"} :
            k \notin kw.keys => kw[k] = None}

\* time passes before the call
TimespanClock ==
    /\ ~call.done
    /\ now < MaxTime
    /\ now' = now + 1
    /\ UNCHANGED <<report, cfg, call, connector, tz, apiOrders, db, written, props, pc, run, srch, log>>

\* start, end = timespan(**kwargs)
TimespanCall ==
    /\ ~call.done
    /\ LET r == timespan(call.kwargs, now)
       IN  call' = [call EXCEPT !.start = r.start, !.end = r.end, !.done = TRUE]
    /\ UNCHANGED <<report, cfg, connector, tz, now, apiOrders, db, written, props, pc, run, srch, log>>

InitTimespan ==
    /\ connector = "none"
    /\ tz = 0
    /\ now = SQUAREDOWN_START
    /\ apiOrders = {}
    /\ db = EmptyDb
    /\ written = EmptyDb
    /\ props = NoProps
    /\ pc = "idle"
    /\ run = IdleRun
    /\ srch = IdleSearch
    /\ log = NoLog
    /\ cfg = NoConfig
    /\ call \in {[NoCall EXCEPT !.kwargs = kw] : kw \in CallKwargs}
    /\ report = NoReport

NextTimespan == TimespanClock \/ TimespanCall

SpecTimespan == InitTimespan /\ [][NextTimespan]_vars

\* ------------------------------------------------------------ ReportData
\* A row of the report
Zero == [sales |-> 0, refunds |-> 0, net |-> 0]

SummaryRows ==
    {"gross", "discount", "net", "tax", "tip", "gift_card", "partial_refund", "fee",
     "gift_card_load", "net_total"}

CollectedRows ==
    {"total", "cash", "card", "square_gift_card", "buy_now_pay_later", "other", "wallet"}

\* the _id of an aggregation group whose grouping field is missing (None)
NullId == "<null>"

\* not category_name
Falsy(name) == name \in {NullId, ""}

\* init_data with the bug of a structure kept: only the timespan is set when
\* self.data holds a report already
init_data_keeps(self_data, start, end) ==
    IF self_data # <<>>
    THEN [self_data EXCEPT !.timespan = [start |-> start, end |-> end]]
    ELSE [timespan |-> [start |-> start, end |-> end],
          summary |-> [r \in SummaryRows |-> Zero],
          collected |-> [r \in CollectedRows |-> Zero],
          category_sales |-> [r \in {"total", "uncategorized"} |-> Zero],
          cost |-> [r \in {"total", "uncategorized"} |-> Zero]]

\* ReportData.init_data: a new structure of zeros, whatever self.data was
init_data(self_data, start, end) ==
    [timespan |-> [start |-> start, end |-> end],
     summary |-> [r \in SummaryRows |-> Zero],
     collected |-> [r \in CollectedRows |-> Zero],
     category_sales |-> [r \in {"total", "uncategorized"} |-> Zero],
     cost |-> [r \in {"total", "uncategorized"} |-> Zero]]

\* if name not in self.data[heading]: self.data[heading][name] = zeros
InitRow(data, heading, name) ==
    IF name \in DOMAIN data[heading] THEN data
    ELSE [data EXCEPT ![heading] =
             [r \in DOMAIN @ \cup {name} |-> IF r = name THEN Zero ELSE @[r]]]

\* ReportData.set_sales_data
set_sales_data(d, agg) ==
    IF agg.sales = None THEN d
    ELSE [d EXCEPT !.data["summary"]["gross"]["sales"] = agg.sales[1].gross,
                   !.data["summary"]["discount"]["sales"] = 0 - agg.sales[1].discount,
                   !.data["summary"]["net"]["sales"] = agg.sales[1].net,
                   !.data["summary"]["tax"]["sales"] = agg.sales[1].tax,
                   !.data["summary"]["tip"]["sales"] = agg.sales[1].tip]

\* ReportData.set_gift_card_sales_data
set_gift_card_sales_data(d, agg) ==
    IF agg.gift = None THEN d
    ELSE [d EXCEPT !.data["summary"]["gift_card"]["sales"] = agg.gift[1].gross,
                   !.data["summary"]["tip"]["sales"] = @ + agg.gift[1].tip,
                   !.data["summary"]["discount"]["sales"] = @ - agg.gift[1].discount,
                   !.data["summary"]["net"]["sales"] = @ - agg.gift[1].discount]

\* ReportData.set_processing_fee
set_processing_fee(d, agg) ==
    [d EXCEPT !.data["summary"]["fee"]["sales"] =
                  IF agg.fee = None THEN @ ELSE 0 - agg.fee[1],
              !.data["summary"]["gift_card_load"]["sales"] =
                  IF agg.load = None THEN @ ELSE agg.load[1]]

\* category_name, 'uncategorized' for a name that is falsy
RowName(id) == IF Falsy(id) THEN "uncategorized" ELSE id

\* one pass of the loop of set_category_sales_data, set_category_refund_data
\* and set_cost_sales_data: a skipped name is passed over; the amount is added
\* to the total and set, with the sign, in the column of the group's row
CategoryStep(acc, heading, column, sign, skip, group) ==
    IF group._id \in skip THEN acc
    ELSE [data |-> [InitRow(acc.data, heading, RowName(group._id))
                       EXCEPT ![heading][RowName(group._id)][column] = sign * group.amount],
          total |-> acc.total + group.amount]

RECURSIVE CategoryLoop(_, _, _, _, _, _)
CategoryLoop(acc, heading, column, sign, skip, groups) ==
    IF groups = <<>> THEN acc
    ELSE CategoryLoop(CategoryStep(acc, heading, column, sign, skip, Head(groups)),
                      heading, column, sign, skip, Tail(groups))

\* the total of a loop is set in the column of the row 'total'
SetTotal(acc, heading, column, sign) ==
    [acc.data EXCEPT ![heading]["total"][column] = sign * acc.total]

\* ReportData.set_category_sales_data
set_category_sales_data(d, agg) ==
    [d EXCEPT !.data =
        SetTotal(CategoryLoop([data |-> @, total |-> 0], "category_sales", "sales", 1,
                              {}, agg.categories),
                 "category_sales", "sales", 1)]

\* one pass of the loop of set_collected_sales_data and
\* set_collected_refund_data: self.data['collected'][tender_name] raises
\* KeyError for a tender type that init_data has no row for
CollectedStep(acc, column, sign, group) ==
    IF acc.exc # "none" THEN acc
    ELSE IF group._id \notin DOMAIN acc.data["collected"]
    THEN [acc EXCEPT !.exc = "KeyError"]
    ELSE [acc EXCEPT !.data["collected"][group._id][column] = sign * group.amount,
                     !.total = @ + group.amount]

RECURSIVE CollectedLoop(_, _, _, _)
CollectedLoop(acc, column, sign, groups) ==
    IF groups = <<>> THEN acc
    ELSE CollectedLoop(CollectedStep(acc, column, sign, Head(groups)), column, sign,
                       Tail(groups))

\* the end of the two loops over tenders
CollectedEnd(acc, column, sign) ==
    IF acc.exc # "none" THEN [data |-> acc.data, exc |-> acc.exc]
    ELSE [data |-> SetTotal(acc, "collected", column, sign), exc |-> "none"]

\* ReportData.set_collected_sales_data
set_collected_sales_data(d, agg) ==
    CollectedEnd(CollectedLoop([data |-> d.data, total |-> 0, exc |-> "none"], "sales", 1,
                               agg.tenders),
                 "sales", 1)

\* the sum of the amounts of the 'Gratuity' service charges
RECURSIVE Gratuity(_)
Gratuity(groups) ==
    IF groups = <<>> THEN 0
    ELSE (IF Head(groups)._id = "Gratuity" THEN Head(groups).amount ELSE 0)
         + Gratuity(Tail(groups))

\* ReportData.set_service_charge_data
set_service_charge_data(d, agg) ==
    [d EXCEPT !.data["summary"]["tip"]["sales"] = @ + Gratuity(agg.service)]

\* ReportData.set_refund_data_returns
set_refund_data_returns(d, agg) ==
    IF agg.returns = None THEN d
    ELSE [d EXCEPT !.data["summary"]["gross"]["refunds"] = 0 - agg.returns[1].gross,
                   !.data["summary"]["discount"]["refunds"] = agg.returns[1].discount,
                   !.data["summary"]["net"]["refunds"] = 0 - agg.returns[1].net,
                   !.data["summary"]["tax"]["refunds"] = 0 - agg.returns[1].tax,
                   !.data["summary"]["tip"]["refunds"] = 0 - agg.returns[1].tip]

\* ReportData.set_refund_data_returns_custom
set_refund_data_returns_custom(d, agg) ==
    IF agg.custom = None THEN d
    ELSE [d EXCEPT !.data["summary"]["partial_refund"]["refunds"] = 0 - agg.custom[1]]

\* ReportData.set_refund_data_tips
set_refund_data_tips(d, agg) ==
    IF agg.tips = None THEN d
    ELSE [d EXCEPT !.data["summary"]["discount"]["refunds"] = @ + agg.tips[1].discount,
                   !.data["summary"]["net"]["refunds"] = @ + agg.tips[1].discount,
                   !.data["summary"]["tax"]["refunds"] = @ - agg.tips[1].tax,
                   !.data["summary"]["tip"]["refunds"] = @ - agg.tips[1].tip]

\* ReportData.set_refund_data
set_refund_data(d, agg) ==
    set_refund_data_tips(set_refund_data_returns_custom(set_refund_data_returns(d, agg),
                                                        agg), agg)

\* ReportData.set_processing_fee_refund
set_processing_fee_refund(d, agg) ==
    IF agg.fee_refund = None THEN d
    ELSE [d EXCEPT !.data["summary"]["fee"]["refunds"] = 0 - agg.fee_refund[1]]

\* ReportData.set_category_refund_data
set_category_refund_data(d, agg) ==
    [d EXCEPT !.data =
        SetTotal(CategoryLoop([data |-> @, total |-> 0], "category_sales", "refunds",
                              0 - 1, {}, agg.category_returns),
                 "category_sales", "refunds", 0 - 1)]

\* ReportData.set_collected_refund_data
set_collected_refund_data(d, agg) ==
    CollectedEnd(CollectedLoop([data |-> d.data, total |-> 0, exc |-> "none"], "refunds",
                               0 - 1, agg.refund_tenders),
                 "refunds", 0 - 1)

\* ReportData.set_cost_sales_data
set_cost_sales_data(d, agg) ==
    [d EXCEPT !.data =
        SetTotal(CategoryLoop([data |-> @, total |-> 0], "cost", "sales", 1,
                              {"gift card"}, agg.costs),
                 "cost", "sales", 1)]

headings_without_cost == {"summary", "collected", "category_sales"}

\* the headings calculate_net goes through
headings == {"summary", "collected", "category_sales", "cost"}

\* the net of every row of the given headings
NetOf(data, hs) ==
    [h \in DOMAIN data |->
        IF h \in hs
        THEN [r \in DOMAIN data[h] |->
                 [data[h][r] EXCEPT !.net = data[h][r].sales + data[h][r].refunds]]
        ELSE data[h]]

\* the two columns of summary.net_total
NetTotal(data) ==
    [data EXCEPT !["summary"]["net_total"]["sales"] =
                     data["collected"]["total"]["sales"] + data["summary"]["fee"]["sales"],
                 !["summary"]["net_total"]["refunds"] =
                     data["collected"]["total"]["refunds"]
                     + data["summary"]["fee"]["refunds"]]

\* ReportData.calculate_net
calculate_net(d, agg) == [d EXCEPT !.data = NetOf(NetTotal(@), headings)]

\* the steps of get_data after init_data, in order
Steps ==
    <<"set_sales_data", "set_gift_card_sales_data", "set_processing_fee",
      "set_category_sales_data", "set_collected_sales_data", "set_service_charge_data",
      "set_refund_data", "set_processing_fee_refund", "set_category_refund_data",
      "set_collected_refund_data", "set_cost_sales_data", "calculate_net">>

Step(name, d, agg) ==
    CASE name = "set_sales_data" -> set_sales_data(d, agg)
      [] name = "set_gift_card_sales_data" -> set_gift_card_sales_data(d, agg)
      [] name = "set_processing_fee" -> set_processing_fee(d, agg)
      [] name = "set_category_sales_data" -> set_category_sales_data(d, agg)
      [] name = "set_collected_sales_data" -> set_collected_sales_data(d, agg)
      [] name = "set_service_charge_data" -> set_service_charge_data(d, agg)
      [] name = "set_refund_data" -> set_refund_data(d, agg)
      [] name = "set_processing_fee_refund" -> set_processing_fee_refund(d, agg)
      [] name = "set_category_refund_data" -> set_category_refund_data(d, agg)
      [] name = "set_collected_refund_data" -> set_collected_refund_data(d, agg)
      [] name = "set_cost_sales_data" -> set_cost_sales_data(d, agg)
      [] name = "calculate_net" -> calculate_net(d, agg)

\* the steps run in order until one raises
RECURSIVE RunSteps(_, _, _)
RunSteps(d, agg, names) ==
    IF names = <<>> \/ d.exc # "none" THEN d
    ELSE RunSteps(Step(Head(names), d, agg), agg, Tail(names))

\* ReportData.get_data: [data, exc]; data is self.data when the call ends
get_data(self_data, inp) ==
    RunSteps([data |-> init_data(self_data, inp.start, inp.end), exc |-> "none"],
             inp.agg, Steps)

\* one group of an aggregation result
Group(id, amount) == [_id |-> id, amount |-> amount]

\* What the aggregation pipelines return over the stored documents of a
\* timespan.  The single-group results are all empty or all present.
SummaryResults ==
    {[sales |-> None, gift |-> None, fee |-> None, load |-> None, service |-> <<>>,
      returns |-> None, custom |-> None, tips |-> None, fee_refund |-> None],
     [sales |-> Some([gross |-> 10, discount |-> 1, net |-> 9, tax |-> 2, tip |-> 1]),
      gift |-> Some([gross |-> 4, discount |-> 1, tip |-> 1]),
      fee |-> Some(1), load |-> Some(2),
      service |-> <<Group("Gratuity", 2), Group("Delivery", 1)>>,
      returns |-> Some([gross |-> 3, discount |-> 1, net |-> 2, tax |-> 1, tip |-> 1]),
      custom |-> Some(1),
      tips |-> Some([discount |-> 1, tax |-> 1, tip |-> 1]),
      fee_refund |-> Some(1)]}

\* the groups of set_category_sales_data: the names are in lower case and a
\* missing name is the empty string ($toLower)
CategoryGroups ==
    {<<>>, <<Group("beer", 5)>>, <<Group("", 3), Group("uncategorized", 2)>>}

\* the groups of the two tender pipelines, by tender type in lower case
TenderGroups ==
    {[sales |-> <<>>, refunds |-> <<>>],
     [sales |-> <<Group("cash", 4), Group("card", 6)>>, refunds |-> <<Group("card", 1)>>],
     [sales |-> <<Group("cash", 4), Group("third_party_card", 6)>>, refunds |-> <<>>]}

\* the groups of set_category_refund_data and of set_cost_sales_data, by the
\* name as stored
ReturnCostGroups ==
    {[returns |-> <<>>, costs |-> <<>>],
     [returns |-> <<Group("wine", 1)>>,
      costs |-> <<Group("beer", 2), Group("gift card", 1)>>],
     [returns |-> <<Group(NullId, 1), Group("", 2)>>,
      costs |-> <<Group(NullId, 1), Group("", 2)>>]}

Aggregations ==
    {[sales |-> su.sales, gift |-> su.gift, fee |-> su.fee, load |-> su.load,
      service |-> su.service, returns |-> su.returns, custom |-> su.custom,
      tips |-> su.tips, fee_refund |-> su.fee_refund,
      categories |-> c, tenders |-> t.sales, refund_tenders |-> t.refunds,
      category_returns |-> rc.returns, costs |-> rc.costs] :
        su \in SummaryResults, c \in CategoryGroups, t \in TenderGroups,
        rc \in ReturnCostGroups}

\* the arguments of get_data and what the database returns for them
ReportInputs ==
    {[start |-> START_MIN, end |-> e, agg |-> a] :
        e \in {SQUAREDOWN_START, SQUAREDOWN_START + 1}, a \in Aggregations}

\* report.get_data(start, end)
ReportGetData(inp) ==
    /\ \E r \in {get_data(report.data, inp)} :
          report' = [data |-> r.data, exc |-> r.exc, inp |-> Some(inp),
                     data0 |-> report.data, inp0 |-> report.inp,
                     calls |-> IF report.calls < 2 THEN report.calls + 1 ELSE 2]
    /\ UNCHANGED <<cfg, call, connector, tz, now, apiOrders, db, written, props, pc, run,
                   srch, log>>

InitReport ==
    /\ connector = "none"
    /\ tz = 0
    /\ now = SQUAREDOWN_START
    /\ apiOrders = {}
    /\ db = EmptyDb
    /\ written = EmptyDb
    /\ props = NoProps
    /\ pc = "idle"
    /\ run = IdleRun
    /\ srch = IdleSearch
    /\ log = NoLog
    /\ cfg = NoConfig
    /\ call = NoCall
    /\ report = NoReport

NextReport == \E inp \in ReportInputs : ReportGetData(inp)

SpecReport == InitReport /\ [][NextReport]_vars

\* C15: Payouts.read and PayoutEntries.read fetch pages until the response
\* carries no cursor: for a listing of several pages they terminate and
\* return every payout (or payout entry) of every page exactly once, each
\* follow-up request continuing from the cursor of the response before it.
C15_ListAllPages ==
    connector = "payouts" =>
        /\ \A k \in 2..Len(srch.reqs) :
              /\ srch.reqs[k] # None
              /\ srch.reqs[k] = ListPage(srch.result, srch.reqs[k - 1]).cursor
        /\ Len(srch.reqs) <= IF srch.result = <<>> THEN 1 ELSE Pages(srch.result)
        /\ \A i, j \in 1..Len(srch.obj_list) :
              srch.obj_list[i].id = srch.obj_list[j].id => i = j
        /\ ( /\ pc \in {"payouts_loop", "done"}
              /\ srch.resps # <<>>
              /\ \A k \in 1..Len(srch.resps) : srch.resps[k] \in {"ok", "empty"} ) =>
                run.orders = srch.result
        /\ \A p \in PayoutIds :
              ReadEntries(ApiPayoutEntries(p), None) = ApiPayoutEntries(p)

\* the stored configuration documents of a name, and the props of the one
StoredSets(config, name) == {d \in config : d._id = name}

StoredProps(config, name) ==
    IF StoredSets(config, name) = {} THEN EmptyProps
    ELSE (CHOOSE d \in StoredSets(config, name) : TRUE).props

IsAssignment(op) == op[1] \in {"setattr", "setitem"}

\* C16: with auto_update true, right after a property of a Config object is
\* assigned, by attribute or by subscript, the stored configuration document
\* of the set's name holds the assigned value under the property's name,
\* without a call of update().
C16_AutoUpdatePersists ==
    (IsAssignment(cfg.op) /\ cfg.auto_update) =>
        /\ Cardinality(StoredSets(db["config"], cfg.name)) = 1
        /\ cfg.op[2] \in DOMAIN StoredProps(db["config"], cfg.name)
        /\ StoredProps(db["config"], cfg.name)[cfg.op[2]] = cfg.op[3]

C16_Witness ==
    /\ cfg.op[1] = "setitem"
    /\ cfg.auto_update
    /\ cfg.name \in SetNames
    /\ StoredSets(cfg.stored0, cfg.name) # {}
    /\ cfg.op[2] \notin DOMAIN StoredProps(cfg.stored0, cfg.name)
    /\ StoredProps(db["config"], cfg.name)[cfg.op[2]] = cfg.op[3]

\* C17: with auto_update false, assigning a property of a Config object, by
\* attribute or by subscript, changes the in-memory set only: the value is
\* read back from the object, and the configuration collection is what it
\* was before the assignment, so a stored set that did not hold the property
\* still does not hold it.
C17_NoAutoUpdateInMemoryOnly ==
    (IsAssignment(cfg.op) /\ ~cfg.auto_update) =>
        /\ Config__getattr__(cfg, cfg.op[2]) = Some(cfg.op[3])
        /\ Config__getitem__(cfg, cfg.op[2]) = Some(cfg.op[3])
        /\ db["config"] = cfg.stored0
        /\ cfg.op[2] \notin DOMAIN StoredProps(cfg.stored0, cfg.name) =>
              cfg.op[2] \notin DOMAIN StoredProps(db["config"], cfg.name)

C17_Witness ==
    /\ cfg.op[1] = "setattr"
    /\ ~cfg.auto_update
    /\ StoredSets(db["config"], cfg.name) # {}
    /\ cfg.op[2] \notin DOMAIN StoredProps(db["config"], cfg.name)
    /\ Config__getattr__(cfg, cfg.op[2]) = Some(cfg.op[3])

\* what the claim says of a step update() that follows del config.prop_name:
\* the stored set of the object's name loses that key, keeps every other
\* property, and the other sets are untouched
DeletedExactly(prop_name) ==
    /\ StoredProps(db'["config"], cfg.name)
           = PropPop(StoredProps(db["config"], cfg.name), prop_name)
    /\ \A d \in db["config"] : d._id # cfg.name => d \in db'["config"]

\* C18 as stated: deleting a property and then calling update() removes
\* exactly that property from the stored set; every other stored property
\* keeps its value.
C18_DeleteThenUpdate ==
    [][(cfg.op[1] = "delattr" /\ cfg'.op = <<"update">>) => DeletedExactly(cfg.op[2])]_vars

\* C18, amended: when the in-memory properties equalled the stored set of the
\* object's name before the deletion, deleting a property and then calling
\* update() removes exactly that property from the stored set; every other
\* stored property keeps its value.
C18_DeleteThenUpdateInSync ==
    [][( /\ cfg.op[1] = "delattr"
         /\ cfg'.op = <<"update">>
         /\ StoredSets(db["config"], cfg.name) # {}
         /\ cfg.props0 = StoredProps(db["config"], cfg.name) ) =>
            DeletedExactly(cfg.op[2])]_vars

C18_Witness ==
    /\ cfg.op = <<"update">>
    /\ cfg.name \in SetNames
    /\ DOMAIN StoredProps(cfg.stored0, cfg.name) = {"p1", "p2"}
    /\ DOMAIN StoredProps(db["config"], cfg.name) = {"p2"}
    /\ StoredProps(db["config"], cfg.name)["p2"] = StoredProps(cfg.stored0, cfg.name)["p2"]
    /\ Cardinality(db["config"]) = 2

\* C19: delete() on an object with a name removes exactly the document of
\* that name from the configuration collection (one document fewer when the
\* set was stored, every other set untouched) and leaves the object with no
\* name and no properties; on an object with no name nothing changes.
C19_DeleteSet ==
    cfg.op = <<"delete">> =>
        IF cfg.name0 # None
        THEN /\ db["config"] = cfg.stored0 \ StoredSets(cfg.stored0, cfg.name0)
             /\ StoredSets(cfg.stored0, cfg.name0) # {} =>
                   Cardinality(db["config"]) = Cardinality(cfg.stored0) - 1
             /\ cfg.name = None
             /\ cfg.props = EmptyProps
        ELSE /\ db["config"] = cfg.stored0
             /\ cfg.name = None
             /\ cfg.props = cfg.props0

C19_Witness ==
    /\ cfg.op = <<"delete">>
    /\ cfg.name0 \in SetNames
    /\ Cardinality(cfg.stored0) = 2
    /\ Cardinality(db["config"]) = 1
    /\ cfg.props0 # EmptyProps
    /\ cfg.name = None

\* the keyword arguments with only the given keywords passed
Only(kwargs, ks) ==
    [keys |-> kwargs.keys \cap ks,
     begin |-> IF "begin" \in ks THEN kwargs.begin ELSE None,
     begin_str |-> IF "begin_str" \in ks THEN kwargs.begin_str ELSE None,
     thru |-> IF "thru" \in ks THEN kwargs.thru ELSE None,
     thru_str |-> IF "thru_str" \in ks THEN kwargs.thru_str ELSE None]

\* C20: timespan returns an explicitly given begin and an explicitly given
\* thru unchanged; with neither begin nor begin_str given (left out, None or
\* empty) the start is START_MIN; with neither thru nor thru_str given the
\* end is the current time; each bound is what it would be had the
\* arguments of the other bound been left out.
C20_Timespan ==
    call.done =>
        LET kw == call.kwargs
        IN  /\ Given(kw, "begin") => call.start = kw.begin[1]
            /\ Given(kw, "thru") => call.end = kw.thru[1]
            /\ (~Given(kw, "begin") /\ ~Given(kw, "begin_str")) => call.start = START_MIN
            /\ (~Given(kw, "thru") /\ ~Given(kw, "thru_str")) => call.end = now
            /\ call.start = timespan(Only(kw, {"begin", "begin_str"}), now).start
            /\ call.end = timespan(Only(kw, {"thru", "thru_str"}), now).end

C20_Witness ==
    /\ call.done
    /\ call.kwargs.keys = {"begin", "thru"}
    /\ call.kwargs.begin = None
    /\ call.kwargs.thru = Some(MaxTime)
    /\ now = MaxTime - 1
    /\ call.start = START_MIN
    /\ call.end = MaxTime

\* the week string passed for keyword k, converted since no datetime is given
WeekGiven(kwargs, k_str, k_dt) ==
    /\ ~Given(kwargs, k_dt)
    /\ Given(kwargs, k_str)
    /\ IsIsoWeek(kwargs[k_str][1])

\* C21: for a week string YYYY-Www, timespan maps begin_str to Monday 00:00
\* local time of the week and thru_str to that Monday plus 7 days; the same
\* week for both gives a window of exactly the week, and the start does not
\* exceed the end when the begin week is not after the thru week.
C21_IsoWeek ==
    call.done =>
        LET kw == call.kwargs
            wb == kw.begin_str[1]
            wt == kw.thru_str[1]
        IN  /\ WeekGiven(kw, "begin_str", "begin") =>
                  call.start = wb.week * WeekLen - wb.off
            /\ WeekGiven(kw, "thru_str", "thru") =>
                  call.end = wt.week * WeekLen - wt.off + WeekLen
            /\ (WeekGiven(kw, "begin_str", "begin") /\ WeekGiven(kw, "thru_str", "thru")) =>
                  /\ wb = wt => call.end - call.start = WeekLen
                  /\ wb.week <= wt.week => call.start <= call.end

C21_Witness ==
    /\ call.done
    /\ WeekGiven(call.kwargs, "begin_str", "begin")
    /\ WeekGiven(call.kwargs, "thru_str", "thru")
    /\ call.kwargs.begin_str = call.kwargs.thru_str
    /\ call.kwargs.begin_str[1].off # 0
    /\ call.end = call.start + WeekLen

\* C22: in the structure get_data returns, every row of summary, collected,
\* category_sales and cost, the rows added for categories included, has
\* net = sales + refunds, and summary.net_total has in its sales and refunds
\* columns collected.total plus summary.fee of the same column.
C22_NetColumns ==
    (report.calls > 0 /\ report.exc = "none") =>
        /\ \A h \in {"summary", "collected", "category_sales", "cost"} :
           \A r \in DOMAIN report.data[h] :
              report.data[h][r].net = report.data[h][r].sales + report.data[h][r].refunds
        /\ \A col \in {"sales", "refunds"} :
              report.data["summary"]["net_total"][col] =
                  report.data["collected"]["total"][col] + report.data["summary"]["fee"][col]

C22_Witness ==
    /\ report.calls > 0
    /\ report.exc = "none"
    /\ "beer" \in DOMAIN report.data["cost"]
    /\ "wine" \in DOMAIN report.data["category_sales"]
    /\ report.data["category_sales"]["wine"].net < 0
    /\ report.data["summary"]["fee"].refunds # 0
    /\ report.data["collected"]["total"].sales = 10
    /\ report.data["summary"]["net_total"].net = 7

\* ------------------------------------------------------------------- C23
\* the properties process_itemizations passes for a line item of the order
ItemProps(order) ==
    [order_id |-> make_order_properties(order).order_id,
     order_state |-> make_order_properties(order).order_state,
     order_updated_at |-> make_order_properties(order).order_updated_at,
     itemization_type |-> "sale", source_order_id |-> None]

\* the database with a document an earlier version saved under the bare uid
WithUidDocument(ctx, uid) ==
    [ctx EXCEPT !.db["square_order_itemizations"] =
        @ \cup {[_id |-> uid, id |-> uid, uid |-> uid]}]

\* C23: itemization documents are keyed by the composite id
\* '<order id>_<line item uid>': after update_itemization the itemizations
\* collection holds exactly one document with that composite _id and none
\* whose _id is the bare uid (one saved under the uid before is removed), the
\* documents of other orders are left as they were, and every stored
\* itemization document has the composite _id of its order and its uid.
C23_CompositeId ==
    (connector = "orders" /\ pc = "idle") =>
        /\ \A d \in db["square_order_itemizations"] : d._id = d.order_id \o d.uid
        /\ \A o \in AnyOrders : \A k \in 1..Len(BodyLineItems(o.body)) :
              \E c \in {update_itemization(WithUidDocument(Ctx, BodyLineItems(o.body)[k].uid),
                                           BodyLineItems(o.body)[k], Prepared(o),
                                           ItemProps(Prepared(o)))} :
                 /\ c.exc = "none"
                 /\ Cardinality({d \in c.db["square_order_itemizations"] :
                                    d._id = o.id \o BodyLineItems(o.body)[k].uid}) = 1
                 /\ \A d \in c.db["square_order_itemizations"] :
                       d._id # BodyLineItems(o.body)[k].uid
                 /\ \A d \in db["square_order_itemizations"] :
                       d._id # o.id \o BodyLineItems(o.body)[k].uid =>
                           d \in c.db["square_order_itemizations"]

\* two orders whose line items share the uid u1, a sale and a return, are
\* both stored, as two documents
C23_Witness ==
    /\ connector = "orders"
    /\ pc = "idle"
    /\ \E d1, d2 \in db["square_order_itemizations"] :
          /\ d1._id = <<"o1", "u1">> /\ d1.uid = <<"u1">>
          /\ d2._id = <<"o2", "u1">> /\ d2.uid = <<"u1">>
          /\ d1.itemization_type = "sale" /\ d2.itemization_type = "return"

\* ------------------------------------------------------------------- C24
\* the raw orders whose updated_at lies in [start, end)
RawWindow(raw, start, end) ==
    {d \in raw : start <= decode_datetime(d.updated_at) /\ decode_datetime(d.updated_at) < end}

\* what read_orders returns with from_raw for every timespan asked for: the
\* raw orders of [start, end), in ascending order of updated_at
C24_ReadWindow ==
    (connector = "orders" /\ pc = "idle") =>
        \A kw \in PullKwargs :
           \A res \in RawResults(db["raw_square_orders"], ConnectorTimespan(kw, props, now).start,
                                 ConnectorTimespan(kw, props, now).end, tz) :
              /\ SeqToSet(res) = RawWindow(db["raw_square_orders"],
                                           ConnectorTimespan(kw, props, now).start,
                                           ConnectorTimespan(kw, props, now).end)
              /\ IsSortedBy(res, UpdatedAtOf)

\* one round of the loop: without from_raw the order is in the raw
\* collection under its id afterwards, a duplicate included; with from_raw no
\* step of the pull writes the raw collection
C24_RawStep ==
    /\ (Len(run'.trace) = Len(run.trace) + 1 /\ ~run.from_raw) =>
          \E d \in db'["raw_square_orders"] :
             /\ d._id = run.orders[run.i].id
             /\ d.updated_at = run.orders[run.i].updated_at
             /\ d.body = run.orders[run.i].body
    /\ (run.from_raw /\ pc # "idle") =>
          db'["raw_square_orders"] = db["raw_square_orders"]

\* C24: in Orders.pull with from_raw=False every retrieved order is upserted
\* into the raw orders collection by id before it is examined, including
\* the boundary order that is then skipped as a duplicate; with
\* from_raw=True the orders are read from the raw collection within
\* [start, end) in ascending updated_at order and the raw collection is not
\* written.
C24_RawFirst == []C24_ReadWindow /\ [][C24_RawStep]_vars

\* the part of C24 that holds: the raw upsert comes first and a pull from
\* the raw collection does not write it
C24_RawStepHolds == [][C24_RawStep]_vars

\* ------------------------------------------------------------------- C25
\* C25: when the orders search succeeds but matches nothing (a success
\* response whose body has neither an 'orders' list nor a cursor),
\* SquareInterface.search returns an empty list and Orders.pull completes
\* normally, with no document written and the watermark unchanged.
C25_EmptySearch ==
    (connector = "orders" /\ srch.resps = <<"empty">>) =>
        /\ run.exc = "none"
        /\ pc \in {"loop", "done"}
        /\ run.orders = <<>>
        /\ db = run.db0
        /\ props = run.props0

\* ------------------------------------------------------------------- C26
\* the watermark record stored for the connector
StoredWatermark == load_properties(db["config"], ConfigName)

\* C26: in every persisted state of the watermark record, the states between
\* the individual writes of one recording included, last_id and last_updated
\* belong to the same object: while a pull runs, the stored pair is the pair
\* stored before the pull or the id and updated_at of one order the pull has
\* processed.
C26_WatermarkPair ==
    (connector = "orders" /\ pc # "idle"
        /\ StoredWatermark.last_id # None /\ StoredWatermark.last_updated # None) =>
        \/ StoredWatermark = load_properties(run.db0["config"], ConfigName)
        \/ \E k \in 1..Len(run.trace) :
              /\ run.trace[k].id = StoredWatermark.last_id
              /\ Some(run.trace[k].updated_at) = StoredWatermark.last_updated

\* ------------------------------------------------------------------- C27
\* C27: across any sequence of Orders.pull calls with save_last=True,
\* whatever begin / begin_str / thru arguments are passed, the persisted
\* last_updated never decreases: when a pull has completed, the stored
\* last_updated is not earlier than the one stored before the pull.
C27_WatermarkMonotone ==
    (connector = "orders" /\ run.save_last /\ pc = "done"
        /\ load_properties(run.db0["config"], ConfigName).last_updated # None) =>
        /\ StoredWatermark.last_updated # None
        /\ StoredWatermark.last_updated[1] >=
              load_properties(run.db0["config"], ConfigName).last_updated[1]

\* ------------------------------------------------------------------- C28
\* C28: the fixed flag protects only the order document: when Orders.pull
\* processes an order whose stored document has _fixed true, the tender,
\* payment, fulfillment, itemization and refund documents derived from the
\* incoming order are still upserted, and with save_last=True the watermark
\* still advances to that order, while the square_orders document stays as
\* it was.
C28_FixedProtectsOrderOnly ==
    [][ \A d \in db["square_orders"] :
          ( /\ connector = "orders"
            /\ run.i \in 1..Len(run.orders)
            /\ d._fixed = "true"
            /\ d._id = run.orders[run.i].id )
          => /\ ( /\ pc = "loop"
                  /\ Len(run'.trace) = Len(run.trace) + 1
                  /\ LastEntry(run').updated
                  /\ LastEntry(run').exc = "none" )
                => /\ d \in db'["square_orders"]
                   /\ \A col \in FanOut : \A id \in FanOutIds(run.orders[run.i])[col] :
                         \E x \in db'[col] :
                            /\ x._id = id
                            /\ x.order_updated_at = decode_datetime(run.orders[run.i].updated_at)
                   /\ \A k \in 1..Len(BodyTenders(run.orders[run.i].body, d._id)) :
                         BodyTenders(run.orders[run.i].body, d._id)[k].paid =>
                            \E x \in db'["square_payments"] :
                               x._id = BodyTenders(run.orders[run.i].body, d._id)[k].id
                   /\ \A k \in 1..Len(BodyRefunds(run.orders[run.i].body, d._id)) :
                         BodyRefunds(run.orders[run.i].body, d._id)[k].found =>
                            \E x \in db'["square_refunds"] :
                               x._id = BodyRefunds(run.orders[run.i].body, d._id)[k].tender_id
                                          \o BodyRefunds(run.orders[run.i].body, d._id)[k].id
                   /\ run.save_last => pc' = "set_last_updated"
             /\ (pc = "props_update" /\ pc' = "loop")
                => /\ d \in db'["square_orders"]
                   /\ StoredWatermark' =
                         [last_id |-> d._id,
                          last_updated |-> Some(decode_datetime(run.orders[run.i].updated_at))]
      ]_vars

\* a pull with save_last has gone through a newer version of a fixed order:
\* the stored order is the fixed, older one, its tender and its payment are
\* stored with the properties of the newer version, and the watermark is at
\* the newer version
C28_Witness ==
    /\ connector = "orders"
    /\ pc = "loop"
    /\ run.save_last
    /\ \E d \in db["square_orders"], t \in db["square_order_tenders"],
          x \in db["square_payments"] :
          /\ d._fixed = "true"
          /\ StoredWatermark.last_id = d._id
          /\ StoredWatermark.last_updated # None
          /\ d.updated_at < StoredWatermark.last_updated[1]
          /\ t.order_id = d._id
          /\ t.order_updated_at = StoredWatermark.last_updated[1]
          /\ x._id = t._id

\* ------------------------------------------------------------------- C29
\* the sum of a column over the given rows of a heading
RECURSIVE SumRows(_, _, _)
SumRows(rows, names, column) ==
    IF names = {} THEN 0
    ELSE LET n == CHOOSE x \in names : TRUE
         IN  rows[n][column] + SumRows(rows, names \ {n}, column)

\* the columns whose 'total' row is the total of a loop over groups
TotalledColumns ==
    {<<"category_sales", "sales">>, <<"category_sales", "refunds">>,
     <<"collected", "sales">>, <<"cost", "sales">>}

\* C29: in the report built by get_data, for each of category_sales (sales
\* column), category_sales (refunds column), collected (sales column) and
\* cost (sales column), the 'total' row equals the sum of that column over
\* all other rows of the heading, for any set of aggregation results,
\* including results with an empty or missing category name that are filed
\* under 'uncategorized'.
C29_TotalsAreSums ==
    (report.calls > 0 /\ report.exc = "none") =>
        \A hc \in TotalledColumns :
           report.data[hc[1]]["total"][hc[2]] =
               SumRows(report.data[hc[1]], DOMAIN report.data[hc[1]] \ {"total"}, hc[2])

\* no two groups of a result are filed under the same row
RECURSIVE DistinctRows(_)
DistinctRows(groups) ==
    \/ groups = <<>>
    \/ /\ \A k \in 2..Len(groups) : RowName(groups[k]._id) # RowName(groups[1]._id)
       /\ DistinctRows(Tail(groups))

\* what holds of C29: the totals are the sums when every group has a row of
\* its own
C29_TotalsOfDistinctRows ==
    ( /\ report.calls > 0 /\ report.exc = "none"
      /\ DistinctRows(report.inp[1].agg.categories)
      /\ DistinctRows(report.inp[1].agg.category_returns)
      /\ DistinctRows(report.inp[1].agg.costs) ) => C29_TotalsAreSums

\* ------------------------------------------------------------------- C30
\* C30: get_data starts each call from a freshly zeroed structure, so its
\* result depends only on the aggregation results and the given timespan
\* and not on earlier calls: what a call leaves is what the first call of a
\* new object leaves for the same input, and a second call over unchanged
\* data returns a report equal to the first, although several steps
\* accumulate into fields with += and -=.
C30_IndependentOfEarlierCalls ==
    report.calls > 0 =>
        /\ \E r \in {get_data(<<>>, report.inp[1])} :
              report.data = r.data /\ report.exc = r.exc
        /\ (report.calls = 2 /\ report.inp0 = report.inp) => report.data = report.data0

\* get_data was called twice over the same data, the second call returned
\* the report of the first, and the fields the steps add to and subtract
\* from are not zero
C30_Witness ==
    /\ report.calls = 2
    /\ report.exc = "none"
    /\ report.inp0 = report.inp
    /\ report.data = report.data0
    /\ report.data["summary"]["tip"].sales = 4
    /\ report.data["summary"]["discount"].sales = 0 - 2
    /\ report.data["summary"]["net"].sales = 8
    /\ report.data["summary"]["tax"].refunds # 0
    /\ "beer" \in DOMAIN report.data["category_sales"]
====
